---- MODULE Spec2Model ----
(***************************************************************************)
(* A model of pykeen's rank-based evaluation engine                        *)
(* (src/src/pykeen/evaluation/rank_based_evaluator.py):                    *)
(*   - compute_rank_from_scores, the pure rank computation;                *)
(*   - the metric library and the metric registry of RankBasedEvaluator;   *)
(*   - resolve_metric_name / RankBasedMetricResults.get_metric;            *)
(*   - the accumulate / finalize life cycle of RankBasedEvaluator.         *)
(*                                                                         *)
(* Numbers.  Every tensor / array element and every metric value is an     *)
(* exact number [kind, n, d]: kind = "num" is the rational n/d in lowest   *)
(* terms (d > 0), kind = "nan" is IEEE not-a-number, kind = "inf" is       *)
(* +infinity (n = 1) or -infinity (n = -1).  Rounding of float32/float64   *)
(* is not modelled; the values that occur (small integers, halves, means   *)
(* of them) are compared exactly.                                          *)
(*                                                                         *)
(* Strings.  A Python str is a sequence of one-character strings, so that  *)
(* the regular expressions and str methods of the source can be computed.  *)
(***************************************************************************)
EXTENDS Integers, Sequences, FiniteSets, TLC

VARIABLES
    true_score,         \* compute_rank_from_scores: argument true_score, shape (B,)
    all_scores,         \* compute_rank_from_scores: argument all_scores, shape (B, N)
    batch_ranks,        \* compute_rank_from_scores: the returned Ranks
    rank_pc,            \* "input" before the call, "done" after it returned
    ks,                 \* RankBasedEvaluator.__init__: the argument ks, as a tuple
    metrics,            \* RankBasedEvaluator.metrics: name -> metric instance
    ranks,              \* RankBasedEvaluator.ranks: rank type -> side -> list of chunks
    number_of_options,  \* RankBasedEvaluator.number_of_options: side -> list of chunks
    result,             \* the RankBasedMetricResults.results of the last finalize() that returned
    finalized,          \* whether some finalize() has returned
    op,                 \* the last operation called on the evaluator / result object
    err,                \* the exception the last operation raised, or "none"
    query,              \* the argument of the last get_metric(name)
    ret,                \* the value the last get_metric returned
    evaluation_factory, \* SampledRankBasedEvaluator.__init__: argument evaluation_factory
    additional_filter_triples,  \* ... argument additional_filter_triples
    num_negatives,      \* ... argument num_negatives
    negatives,          \* ... argument negatives
    negative_samples,   \* SampledRankBasedEvaluator.negative_samples: side -> matrix
    triple_to_index,    \* SampledRankBasedEvaluator.triple_to_index: triple -> row
    num_entities,       \* SampledRankBasedEvaluator.num_entities
    hrt_batch,          \* the argument hrt_batch of the last sampled update
    scores              \* the argument scores (all entities) of the last sampled update

sampled_vars == <<evaluation_factory, additional_filter_triples, num_negatives, negatives,
                  negative_samples, triple_to_index, num_entities, hrt_batch, scores>>

vars == <<true_score, all_scores, batch_ranks, rank_pc, ks, metrics, ranks,
          number_of_options, result, finalized, op, err, query, ret,
          evaluation_factory, additional_filter_triples, num_negatives, negatives,
          negative_samples, triple_to_index, num_entities, hrt_batch, scores>>

rank_vars == <<true_score, all_scores, batch_ranks, rank_pc>>
eval_vars == <<ks, metrics, ranks, number_of_options, result, finalized, op, err, query, ret>>

----------------------------------------------------------------------------
(* Exact numbers with IEEE special values.                                 *)

RECURSIVE Gcd(_, _)
Gcd(a, b) == IF b = 0 THEN a ELSE Gcd(b, a % b)

Abs(x) == IF x < 0 THEN -x ELSE x

\* the rational n/d (d # 0) in lowest terms with a positive denominator
Rat(n, d) ==
    LET s == IF d < 0 THEN -1 ELSE 1
        g == Gcd(Abs(n), Abs(d))
    IN  [kind |-> "num", n |-> (s * n) \div g, d |-> (s * d) \div g]

Num(v) == [kind |-> "num", n |-> v, d |-> 1]
NaN == [kind |-> "nan", n |-> 0, d |-> 1]
PosInf == [kind |-> "inf", n |-> 1, d |-> 1]
NegInf == [kind |-> "inf", n |-> -1, d |-> 1]

IsNaN(x) == x.kind = "nan"
IsInf(x) == x.kind = "inf"
IsNum(x) == x.kind = "num"

\* sign of x (x not NaN): -1, 0 or 1
Sign(x) == IF x.n < 0 THEN -1 ELSE IF x.n > 0 THEN 1 ELSE 0

\* IEEE comparisons: every comparison with NaN is false
FGt(a, b) ==
    IF IsNaN(a) \/ IsNaN(b) THEN FALSE
    ELSE IF IsInf(a) THEN (a.n = 1) /\ ~(IsInf(b) /\ b.n = 1)
    ELSE IF IsInf(b) THEN b.n = -1
    ELSE a.n * b.d > b.n * a.d

FEq(a, b) ==
    IF IsNaN(a) \/ IsNaN(b) THEN FALSE
    ELSE IF IsInf(a) \/ IsInf(b) THEN IsInf(a) /\ IsInf(b) /\ a.n = b.n
    ELSE a.n * b.d = b.n * a.d

FGe(a, b) == FGt(a, b) \/ FEq(a, b)
FLe(a, b) == FGe(b, a)
FLt(a, b) == FGt(b, a)

\* torch.isfinite / numpy.isfinite
isfinite(x) == IsNum(x)

FNeg(a) == IF IsNum(a) THEN Rat(-a.n, a.d) ELSE IF IsInf(a) THEN [a EXCEPT !.n = -a.n] ELSE NaN

FAdd(a, b) ==
    IF IsNaN(a) \/ IsNaN(b) THEN NaN
    ELSE IF IsInf(a) /\ IsInf(b) THEN (IF a.n = b.n THEN a ELSE NaN)
    ELSE IF IsInf(a) THEN a
    ELSE IF IsInf(b) THEN b
    ELSE Rat(a.n * b.d + b.n * a.d, a.d * b.d)

FSub(a, b) == FAdd(a, FNeg(b))

FMul(a, b) ==
    IF IsNaN(a) \/ IsNaN(b) THEN NaN
    ELSE IF IsInf(a) \/ IsInf(b)
         THEN (IF Sign(a) = 0 \/ Sign(b) = 0 THEN NaN
               ELSE IF Sign(a) = Sign(b) THEN PosInf ELSE NegInf)
    ELSE Rat(a.n * b.n, a.d * b.d)

\* numpy float64 division: x/0 is +-inf (nan for 0/0), with a warning, never an exception
FDiv(a, b) ==
    IF IsNaN(a) \/ IsNaN(b) THEN NaN
    ELSE IF IsInf(a) THEN (IF IsInf(b) THEN NaN
                           ELSE IF (IF Sign(b) < 0 THEN -a.n ELSE a.n) = 1 THEN PosInf ELSE NegInf)
    ELSE IF IsInf(b) THEN Num(0)
    ELSE IF b.n = 0 THEN (IF a.n = 0 THEN NaN ELSE IF a.n > 0 THEN PosInf ELSE NegInf)
    ELSE Rat(a.n * b.d, a.d * b.n)

----------------------------------------------------------------------------
(* Sequence helpers.                                                       *)

RECURSIVE SeqSum(_)
SeqSum(s) == IF s = <<>> THEN Num(0) ELSE FAdd(Head(s), SeqSum(Tail(s)))

\* number of indices of s that satisfy Test
CountIf(s, Test(_)) == Cardinality({i \in DOMAIN s : Test(s[i])})

\* numpy.concatenate of a non-empty list of one-dimensional arrays
RECURSIVE Flatten(_)
Flatten(chunks) == IF chunks = <<>> THEN <<>> ELSE Head(chunks) \o Flatten(Tail(chunks))

\* the set of the elements of a tuple
Range(s) == {s[i] : i \in DOMAIN s}

\* all sequences over S of length 0..n
SeqsUpTo(S, n) == UNION {[1..k -> S] : k \in 0..n}

----------------------------------------------------------------------------
(* Sides and rank types (lines 52-66).                                     *)

SIDE_HEAD == <<"h", "e", "a", "d">>
SIDE_TAIL == <<"t", "a", "i", "l">>
SIDE_BOTH == <<"b", "o", "t", "h">>
REAL_SIDES == <<SIDE_HEAD, SIDE_TAIL>>
SIDES == REAL_SIDES \o <<SIDE_BOTH>>

RANK_OPTIMISTIC == <<"o", "p", "t", "i", "m", "i", "s", "t", "i", "c">>
RANK_REALISTIC == <<"r", "e", "a", "l", "i", "s", "t", "i", "c">>
RANK_PESSIMISTIC == <<"p", "e", "s", "s", "i", "m", "i", "s", "t", "i", "c">>
RANK_TYPES == <<RANK_OPTIMISTIC, RANK_REALISTIC, RANK_PESSIMISTIC>>

----------------------------------------------------------------------------
(* compute_rank_from_scores (lines 383-419).  true_score is a sequence of  *)
(* B numbers, all_scores a sequence of B rows of N numbers.                *)

\* mutant: the optimistic rank counts every candidate that is not at most the true
\* score, the NaN entries among them
optimistic_rank_not_le(t, row) == CountIf(row, LAMBDA x : ~FLe(x, t)) + 1

\* (all_scores > true_score).sum(dim=1) + 1, for one row
optimistic_rank(t, row) == CountIf(row, LAMBDA x : FGt(x, t)) + 1

\* mutant: the pessimistic rank with a one added, as for the optimistic rank
pessimistic_rank_plus_one(t, row) == CountIf(row, LAMBDA x : FGe(x, t)) + 1

\* (all_scores >= true_score).sum(dim=1), for one row
pessimistic_rank(t, row) == CountIf(row, LAMBDA x : FGe(x, t))

\* mutant: the realistic rank as the sum, not the average, of the two ranks
realistic_rank_sum(t, row) == Num(optimistic_rank(t, row) + pessimistic_rank(t, row))

\* (optimistic_rank + pessimistic_rank).float() * 0.5, for one row
realistic_rank(t, row) ==
    FMul(Num(optimistic_rank(t, row) + pessimistic_rank(t, row)), Rat(1, 2))

\* torch.isfinite(all_scores).sum(dim=1), for one row
row_number_of_options(row) == CountIf(row, isfinite)

compute_rank_from_scores(ts, as) ==
    [optimistic |-> [i \in DOMAIN ts |-> Num(optimistic_rank(ts[i], as[i]))],
     realistic |-> [i \in DOMAIN ts |-> realistic_rank(ts[i], as[i])],
     pessimistic |-> [i \in DOMAIN ts |-> Num(pessimistic_rank(ts[i], as[i]))],
     number_of_options |-> [i \in DOMAIN ts |-> Num(row_number_of_options(as[i]))]]

\* Ranks.to_type_dict (lines 374-380)
to_type_dict(r) ==
    [rt \in Range(RANK_TYPES) |->
        IF rt = RANK_OPTIMISTIC THEN r.optimistic
        ELSE IF rt = RANK_REALISTIC THEN r.realistic
        ELSE r.pessimistic]

----------------------------------------------------------------------------
(* Python str operations on sequences of characters.                       *)

UPPER == <<"A", "B", "C", "D", "E", "F", "G", "H", "I", "J", "K", "L", "M", "N", "O", "P", "Q", "R", "S", "T", "U", "V", "W", "X", "Y", "Z">>
LOWER == <<"a", "b", "c", "d", "e", "f", "g", "h", "i", "j", "k", "l", "m", "n", "o", "p", "q", "r", "s", "t", "u", "v", "w", "x", "y", "z">>
DIGITS == <<"0", "1", "2", "3", "4", "5", "6", "7", "8", "9">>

\* the position of c in the tuple s, 0 when absent
IndexOf(s, c) == IF \E i \in DOMAIN s : s[i] = c THEN CHOOSE i \in DOMAIN s : s[i] = c ELSE 0

\* str.lower, for one character
LowerChar(c) == IF IndexOf(UPPER, c) > 0 THEN LOWER[IndexOf(UPPER, c)] ELSE c

\* str.lower
lower(s) == [i \in DOMAIN s |-> LowerChar(s[i])]

\* str.replace(old, new) for single characters old and new
replace(s, old, new) == [i \in DOMAIN s |-> IF s[i] = old THEN new ELSE s[i]]

\* str.replace(old, "") for a single character old
RECURSIVE remove(_, _)
remove(s, old) ==
    IF s = <<>> THEN <<>>
    ELSE IF Head(s) = old THEN remove(Tail(s), old)
    ELSE <<Head(s)>> \o remove(Tail(s), old)

\* whether p is a prefix of s starting at position i (1-based): s[i-1:].startswith(p)
StartsWithAt(s, i, p) ==
    /\ i + Len(p) - 1 <= Len(s)
    /\ \A j \in 1..Len(p) : s[i + j - 1] = p[j]

startswith(s, p) == StartsWithAt(s, 1, p)

endswith(s, p) == Len(p) <= Len(s) /\ StartsWithAt(s, Len(s) - Len(p) + 1, p)

\* s[i-1:j-1] with 1-based i and exclusive end j
Slice(s, i, j) == [x \in 1..(j - i) |-> s[i + x - 1]]

\* the regular-expression classes \d and [\w@] over the modelled alphabet
DigitChars == Range(DIGITS)
NameChars == Range(DIGITS) \cup Range(UPPER) \cup Range(LOWER) \cup {"_", "@"}
IsDigit(c) == c \in DigitChars
IsNameChar(c) == c \in NameChars

\* the end of a greedy [\w@]+ or \d+ that starts at position i: the first position
\* >= i whose character is not in the class (Len(s) + 1 when there is none)
RECURSIVE NameRunEnd(_, _)
NameRunEnd(s, i) == IF i <= Len(s) /\ IsNameChar(s[i]) THEN NameRunEnd(s, i + 1) ELSE i

RECURSIVE DigitRunEnd(_, _)
DigitRunEnd(s, i) == IF i <= Len(s) /\ IsDigit(s[i]) THEN DigitRunEnd(s, i + 1) ELSE i

\* int(str) for a non-empty string of decimal digits
RECURSIVE int(_)
int(s) ==
    IF s = <<>> THEN 0
    ELSE 10 * int(Slice(s, 1, Len(s))) + (IndexOf(DIGITS, s[Len(s)]) - 1)

\* Python's None and a present value
None == <<>>
Some(v) == <<v>>

----------------------------------------------------------------------------
(* The metric classes (lines 131-297), by class name.                      *)

ArithmeticMeanRank == <<"A", "r", "i", "t", "h", "m", "e", "t", "i", "c", "M", "e", "a", "n", "R", "a", "n", "k">>
InverseArithmeticMeanRank == <<"I", "n", "v", "e", "r", "s", "e", "A", "r", "i", "t", "h", "m", "e", "t", "i", "c", "M", "e", "a", "n", "R", "a", "n", "k">>
GeometricMeanRank == <<"G", "e", "o", "m", "e", "t", "r", "i", "c", "M", "e", "a", "n", "R", "a", "n", "k">>
InverseGeometricMeanRank == <<"I", "n", "v", "e", "r", "s", "e", "G", "e", "o", "m", "e", "t", "r", "i", "c", "M", "e", "a", "n", "R", "a", "n", "k">>
HarmonicMeanRank == <<"H", "a", "r", "m", "o", "n", "i", "c", "M", "e", "a", "n", "R", "a", "n", "k">>
InverseHarmonicMeanRank == <<"I", "n", "v", "e", "r", "s", "e", "H", "a", "r", "m", "o", "n", "i", "c", "M", "e", "a", "n", "R", "a", "n", "k">>
MedianRank == <<"M", "e", "d", "i", "a", "n", "R", "a", "n", "k">>
InverseMedianRank == <<"I", "n", "v", "e", "r", "s", "e", "M", "e", "d", "i", "a", "n", "R", "a", "n", "k">>
StandardDeviation == <<"S", "t", "a", "n", "d", "a", "r", "d", "D", "e", "v", "i", "a", "t", "i", "o", "n">>
Variance == <<"V", "a", "r", "i", "a", "n", "c", "e">>
MedianAbsoluteDeviation == <<"M", "e", "d", "i", "a", "n", "A", "b", "s", "o", "l", "u", "t", "e", "D", "e", "v", "i", "a", "t", "i", "o", "n">>
Count == <<"C", "o", "u", "n", "t">>
HitsAtK == <<"H", "i", "t", "s", "A", "t", "K">>
AdjustedArithmeticMeanRank == <<"A", "d", "j", "u", "s", "t", "e", "d", "A", "r", "i", "t", "h", "m", "e", "t", "i", "c", "M", "e", "a", "n", "R", "a", "n", "k">>
AdjustedArithmeticMeanRankIndex == <<"A", "d", "j", "u", "s", "t", "e", "d", "A", "r", "i", "t", "h", "m", "e", "t", "i", "c", "M", "e", "a", "n", "R", "a", "n", "k", "I", "n", "d", "e", "x">>
RankBasedMetric == <<"R", "a", "n", "k", "B", "a", "s", "e", "d", "M", "e", "t", "r", "i", "c">>


\* mutant: no metric restricts its rank types
supported_rank_types_all(cls) == Range(RANK_TYPES)

\* RankBasedMetric.supported_rank_types (line 110), overridden at lines 275 and 288
supported_rank_types(cls) ==
    IF cls \in {AdjustedArithmeticMeanRank, AdjustedArithmeticMeanRankIndex}
    THEN {RANK_REALISTIC}
    ELSE Range(RANK_TYPES)

----------------------------------------------------------------------------
(* numpy / scipy reductions over a non-empty array rs of numbers.          *)

RECURSIVE Pow(_, _)
Pow(b, e) == IF e = 0 THEN 1 ELSE b * Pow(b, e - 1)

\* the least natural number r >= from with r^deg >= x
RECURSIVE RootCeil(_, _, _)
RootCeil(x, deg, from) == IF Pow(from, deg) >= x THEN from ELSE RootCeil(x, deg, from + 1)

\* whether the natural number x is a perfect deg-th power, and its root
IntRoot(x, deg) == RootCeil(x, deg, 0)
HasIntRoot(x, deg) == Pow(IntRoot(x, deg), deg) = x

\* the deg-th root of the non-negative rational x: a rational when x is a perfect
\* power, else the exact algebraic number [kind "root", n/d, deg]
Root(x, deg) ==
    IF ~IsNum(x) THEN x
    ELSE IF deg = 1 THEN x
    ELSE IF HasIntRoot(x.n, deg) /\ HasIntRoot(x.d, deg)
         THEN Rat(IntRoot(x.n, deg), IntRoot(x.d, deg))
    ELSE [kind |-> "root", n |-> x.n, d |-> x.d, deg |-> deg]

\* numpy.reciprocal
reciprocal(x) ==
    IF x.kind = "root" THEN [x EXCEPT !.n = x.d, !.d = x.n]
    ELSE FDiv(Num(1), x)

FAbs(x) == IF IsNum(x) THEN Rat(Abs(x.n), x.d) ELSE IF IsInf(x) THEN PosInf ELSE NaN

RECURSIVE SeqProd(_)
SeqProd(s) == IF s = <<>> THEN Num(1) ELSE FMul(Head(s), SeqProd(Tail(s)))

\* numpy.mean
mean(rs) == FDiv(SeqSum(rs), Num(Len(rs)))

\* numpy.sort of an array without NaN
RECURSIVE Insert(_, _)
Insert(x, s) ==
    IF s = <<>> THEN <<x>>
    ELSE IF FLe(x, Head(s)) THEN <<x>> \o s
    ELSE <<Head(s)>> \o Insert(x, Tail(s))

RECURSIVE sort(_)
sort(s) == IF s = <<>> THEN <<>> ELSE Insert(Head(s), sort(Tail(s)))

\* numpy.median
median(rs) ==
    LET s == sort(rs)
        n == Len(rs)
    IN  IF \E i \in DOMAIN rs : IsNaN(rs[i]) THEN NaN
        ELSE IF n % 2 = 1 THEN s[(n + 1) \div 2]
        ELSE FDiv(FAdd(s[n \div 2], s[n \div 2 + 1]), Num(2))

\* numpy.var (ddof = 0)
var(rs) ==
    LET m == mean(rs)
    IN  mean([i \in DOMAIN rs |-> FMul(FSub(rs[i], m), FSub(rs[i], m))])

\* numpy.std
std(rs) == Root(var(rs), 2)

\* scipy.stats.gmean: exp(mean(log(rs))); log(0) = -inf gives 0
gmean(rs) ==
    LET P == SeqProd(rs)
    IN  IF IsNum(P) /\ P.n = 0 THEN Num(0) ELSE Root(P, Len(rs))

\* scipy.stats.hmean (scipy 1.3 to 1.8, the releases that have
\* median_absolute_deviation): size / sum(1 / rs), division by zero ignored
hmean(rs) == FDiv(Num(Len(rs)), SeqSum([i \in DOMAIN rs |-> FDiv(Num(1), rs[i])]))

\* scipy.stats.median_absolute_deviation with its default scale 1.4826
median_absolute_deviation(rs) ==
    LET m == median(rs)
    IN  FMul(Rat(7413, 5000), median([i \in DOMAIN rs |-> FAbs(FSub(rs[i], m))]))

\* expected_mean_rank (lines 848-865)
expected_mean_rank(num_candidates) == FMul(Rat(1, 2), FAdd(Num(1), mean(num_candidates)))

----------------------------------------------------------------------------
(* The metrics' __call__ (lines 131-297).  A metric instance is            *)
(* [cls |-> class name], and [cls |-> HitsAtK, k |-> k] for Hits@k, where  *)
(* a k is the Python number [float |-> whether it is a float, v |-> value].*)

\* ArithmeticMeanRank.call (lines 137-139)
ArithmeticMeanRank_call(rs) == mean(rs)

\* HitsAtK.__call__ (lines 266-267): np.less_equal(ranks, self.k).mean()
HitsAtK_call(k, rs) == mean([i \in DOMAIN rs |-> IF FLe(rs[i], k.v) THEN Num(1) ELSE Num(0)])

\* AdjustedArithmeticMeanRank.__call__ (lines 278-279)
AdjustedArithmeticMeanRank_call(rs, num_candidates) ==
    FDiv(ArithmeticMeanRank_call(rs), expected_mean_rank(num_candidates))

\* AdjustedArithmeticMeanRankIndex.__call__ (lines 291-297)
AdjustedArithmeticMeanRankIndex_call(rs, num_candidates) ==
    FSub(Num(1), FDiv(FSub(ArithmeticMeanRank_call(rs), Num(1)),
                      FSub(expected_mean_rank(num_candidates), Num(1))))

\* metric(ranks=rs, num_candidates=num_candidates)
MetricCall(metric, rs, num_candidates) ==
    CASE metric.cls = ArithmeticMeanRank -> ArithmeticMeanRank_call(rs)
      [] metric.cls = InverseArithmeticMeanRank -> reciprocal(mean(rs))
      [] metric.cls = GeometricMeanRank -> gmean(rs)
      [] metric.cls = InverseGeometricMeanRank -> reciprocal(gmean(rs))
      [] metric.cls = HarmonicMeanRank -> hmean(rs)
      [] metric.cls = InverseHarmonicMeanRank -> reciprocal(hmean(rs))
      [] metric.cls = MedianRank -> median(rs)
      [] metric.cls = InverseMedianRank -> reciprocal(median(rs))
      [] metric.cls = StandardDeviation -> std(rs)
      [] metric.cls = Variance -> var(rs)
      [] metric.cls = MedianAbsoluteDeviation -> median_absolute_deviation(rs)
      [] metric.cls = Count -> Num(Len(rs))
      [] metric.cls = HitsAtK -> HitsAtK_call(metric.k, rs)
      [] metric.cls = AdjustedArithmeticMeanRank -> AdjustedArithmeticMeanRank_call(rs, num_candidates)
      [] metric.cls = AdjustedArithmeticMeanRankIndex ->
            AdjustedArithmeticMeanRankIndex_call(rs, num_candidates)

\* the value_range each metric class declares (lines 134-285): a ValueRange with its
\* bounds and whether each is inclusive; math.inf is the upper bound of the unbounded
ValueRange(lo, lo_inclusive, up, up_inclusive) ==
    [lower |-> lo, lower_inclusive |-> lo_inclusive,
     upper |-> up, upper_inclusive |-> up_inclusive]

value_range(cls) ==
    IF cls \in {ArithmeticMeanRank, GeometricMeanRank, HarmonicMeanRank, MedianRank}
    THEN ValueRange(Num(1), TRUE, PosInf, FALSE)
    ELSE IF cls \in {InverseArithmeticMeanRank, InverseGeometricMeanRank,
                     InverseHarmonicMeanRank, InverseMedianRank}
    THEN ValueRange(Num(0), FALSE, Num(1), TRUE)
    ELSE IF cls \in {StandardDeviation, Variance, MedianAbsoluteDeviation, Count}
    THEN ValueRange(Num(0), TRUE, PosInf, FALSE)
    ELSE IF cls = HitsAtK THEN ValueRange(Num(0), TRUE, Num(1), TRUE)
    ELSE IF cls = AdjustedArithmeticMeanRank THEN ValueRange(Num(0), TRUE, Num(2), FALSE)
    ELSE ValueRange(Num(-1), TRUE, Num(1), TRUE)

----------------------------------------------------------------------------
(* The metric registry (lines 300-303, 596-605).                           *)

\* class_resolver.normalize_string(s, suffix): lower-case, drop "-", "_" and " ",
\* then cut the suffix when s ends with it
normalize_string(s, suffix) ==
    LET n == remove(remove(remove(lower(s), "-"), "_"), " ")
    IN  IF endswith(n, lower(suffix)) THEN Slice(n, 1, Len(n) - Len(suffix) + 1) ELSE n

\* metric_resolver.normalize_inst(metric): the normalised class name, the suffix
\* of the resolver being the normalised name of its base class
normalize_inst(metric) == normalize_string(metric.cls, normalize_string(RankBasedMetric, <<>>))

\* metric_resolver.lookup_dict.values(): the subclasses of RankBasedMetric
lookup_dict_values ==
    <<ArithmeticMeanRank, InverseArithmeticMeanRank, GeometricMeanRank,
      InverseGeometricMeanRank, HarmonicMeanRank, InverseHarmonicMeanRank,
      MedianRank, InverseMedianRank, StandardDeviation, Variance,
      MedianAbsoluteDeviation, Count, HitsAtK, AdjustedArithmeticMeanRank,
      AdjustedArithmeticMeanRankIndex>>

\* the list `metrics` of lines 602-604: one instance per class other than HitsAtK,
\* then one HitsAtK per element of ks
metric_instances(arg_ks) ==
    SelectSeq([i \in DOMAIN lookup_dict_values |-> [cls |-> lookup_dict_values[i]]],
              LAMBDA m : m.cls # HitsAtK)
    \o [i \in DOMAIN arg_ks |-> [cls |-> HitsAtK, k |-> arg_ks[i]]]

\* the dict comprehension of line 605: a later instance replaces an earlier one
\* that normalises to the same name
metrics_dict(instances) ==
    [name \in {normalize_inst(instances[i]) : i \in DOMAIN instances} |->
        LET last == CHOOSE i \in DOMAIN instances :
                        /\ normalize_inst(instances[i]) = name
                        /\ \A j \in DOMAIN instances :
                              normalize_inst(instances[j]) = name => j <= i
        IN  instances[last]]

\* the float check of lines 597-601: a k that is a float outside (0, 1) is rejected
ks_valid(arg_ks) ==
    \A i \in DOMAIN arg_ks :
        arg_ks[i].float => (FLt(Num(0), arg_ks[i].v) /\ FLt(arg_ks[i].v, Num(1)))


\* a Python int and a Python float, as passed in ks
PyInt(v) == [float |-> FALSE, v |-> Num(v)]
PyFloat(n, d) == [float |-> TRUE, v |-> Rat(n, d)]

\* the default ks of line 596
DEFAULT_KS == <<PyInt(1), PyInt(3), PyInt(5), PyInt(10)>>

----------------------------------------------------------------------------
(* RankBasedEvaluator: update (lines 609-645).                             *)

\* the index of x in the tuple s
Pos(s, x) == CHOOSE i \in DOMAIN s : s[i] = x

\* the first rank type, in the order of to_type_dict, for which self.ranks[rank_type]
\* raises KeyError; Len(RANK_TYPES) + 1 when there is none
FirstMissing(rks) ==
    CHOOSE m \in 1..(Len(RANK_TYPES) + 1) :
        /\ \A i \in 1..(m - 1) : RANK_TYPES[i] \in DOMAIN rks
        /\ (m = Len(RANK_TYPES) + 1 \/ RANK_TYPES[m] \notin DOMAIN rks)

\* the loop of lines 625-626: append the chunk of each rank type, up to the first KeyError
append_ranks(rks, side, batch) ==
    [rt \in DOMAIN rks |->
        IF Pos(RANK_TYPES, rt) < FirstMissing(rks)
        THEN [rks[rt] EXCEPT ![side] = Append(@, to_type_dict(batch)[rt])]
        ELSE rks[rt]]

\* line 627 on the defaultdict(list): self.number_of_options[side].append(chunk)
append_options(opts, side, chunk) ==
    [s \in DOMAIN opts \cup {side} |->
        IF s = side
        THEN Append(IF side \in DOMAIN opts THEN opts[side] ELSE <<>>, chunk)
        ELSE opts[s]]

\* _update_ranks_(true_scores, all_scores, side, hrt_batch)
_update_ranks_(ts, as, side) ==
    LET batch == compute_rank_from_scores(ts, as)
        failed == FirstMissing(ranks) <= Len(RANK_TYPES)
    IN  /\ ranks' = append_ranks(ranks, side, batch)
        /\ number_of_options' =
              IF failed THEN number_of_options
              ELSE append_options(number_of_options, side, batch.number_of_options)
        /\ err' = IF failed THEN "KeyError" ELSE "none"

----------------------------------------------------------------------------
(* RankBasedEvaluator: finalize (lines 647-679).                           *)

\* mapping.get(side, [])
get_or_empty(mapping, side) == IF side \in DOMAIN mapping THEN mapping[side] ELSE <<>>

\* _get_for_side for a real side: numpy.concatenate raises ValueError on an empty list
\* of arrays; astype(float64) keeps the value of every element
get_real_side(mapping, side) ==
    LET values == get_or_empty(mapping, side)
    IN  IF values = <<>> THEN [ok |-> FALSE, val |-> <<>>]
        ELSE [ok |-> TRUE, val |-> Flatten(values)]

\* mutant: the side "both" takes the arrays of the head side only
_get_for_side_head_only(mapping, side) ==
    get_real_side(mapping, IF side \in Range(REAL_SIDES) THEN side ELSE SIDE_HEAD)

\* _get_for_side (lines 647-657)
_get_for_side(mapping, side) ==
    IF side \in Range(REAL_SIDES) THEN get_real_side(mapping, side)
    ELSE LET parts == [i \in DOMAIN REAL_SIDES |-> get_real_side(mapping, REAL_SIDES[i])]
         IN  IF \E i \in DOMAIN parts : ~parts[i].ok THEN [ok |-> FALSE, val |-> <<>>]
             ELSE [ok |-> TRUE, val |-> Flatten([i \in DOMAIN parts |-> parts[i].val])]

\* the exception one iteration of the loop over sides (lines 662-675) raises, or "none"
side_error(rks, opts, side) ==
    LET nc == _get_for_side(opts, side)
    IN  IF ~nc.ok THEN "ValueError"
        ELSE IF Len(nc.val) < 1 THEN "none"
        ELSE IF FirstMissing(rks) <= Len(RANK_TYPES) THEN "KeyError"
        ELSE IF \E i \in DOMAIN RANK_TYPES : ~_get_for_side(rks[RANK_TYPES[i]], side).ok
             THEN "ValueError"
        ELSE "none"

\* the exception finalize raises: that of the first side, in the order of SIDES, that fails
finalize_error(rks, opts) ==
    IF \A i \in DOMAIN SIDES : side_error(rks, opts, SIDES[i]) = "none" THEN "none"
    ELSE side_error(rks, opts,
            SIDES[CHOOSE i \in DOMAIN SIDES :
                    /\ side_error(rks, opts, SIDES[i]) # "none"
                    /\ \A j \in 1..(i - 1) : side_error(rks, opts, SIDES[j]) = "none"])

\* the (metric name, side, rank type) combinations lines 662-675 record
recorded_keys(mets, rks, opts) ==
    {key \in (DOMAIN mets) \X Range(SIDES) \X Range(RANK_TYPES) :
        /\ Len(_get_for_side(opts, key[2]).val) >= 1
        /\ Len(_get_for_side(rks[key[3]], key[2]).val) >= 1
        /\ key[3] \in supported_rank_types(mets[key[1]].cls)}

\* the dict `result` finalize builds when no exception is raised
finalize_result(mets, rks, opts) ==
    [key \in recorded_keys(mets, rks, opts) |->
        MetricCall(mets[key[1]],
                   _get_for_side(rks[key[3]], key[2]).val,
                   _get_for_side(opts, key[2]).val)]


----------------------------------------------------------------------------
(* Metric-name resolution (lines 322-347, 422-488).                        *)

ADJUSTED_ARITHMETIC_MEAN_RANK == <<"a", "d", "j", "u", "s", "t", "e", "d", "_", "a", "r", "i", "t", "h", "m", "e", "t", "i", "c", "_", "m", "e", "a", "n", "_", "r", "a", "n", "k">>
ADJUSTED_ARITHMETIC_MEAN_RANK_INDEX == <<"a", "d", "j", "u", "s", "t", "e", "d", "_", "a", "r", "i", "t", "h", "m", "e", "t", "i", "c", "_", "m", "e", "a", "n", "_", "r", "a", "n", "k", "_", "i", "n", "d", "e", "x">>
HITS_AT_K == <<"h", "i", "t", "s", "_", "a", "t", "_", "k">>
\* mutant: no metric name is restricted to the realistic rank type
TYPES_REALISTIC_ONLY_none == {}

TYPES_REALISTIC_ONLY == {ADJUSTED_ARITHMETIC_MEAN_RANK, ADJUSTED_ARITHMETIC_MEAN_RANK_INDEX}

\* METRIC_SYNONYMS (lines 325-332), as the tuple of its (key, value) items
METRIC_SYNONYMS ==
    <<<<<<"a", "d", "j", "u", "s", "t", "e", "d", "_", "m", "e", "a", "n", "_", "r", "a", "n", "k">>, ADJUSTED_ARITHMETIC_MEAN_RANK>>,
      <<<<"a", "d", "j", "u", "s", "t", "e", "d", "_", "m", "e", "a", "n", "_", "r", "a", "n", "k", "_", "i", "n", "d", "e", "x">>, ADJUSTED_ARITHMETIC_MEAN_RANK_INDEX>>,
      <<<<"a", "m", "r">>, ADJUSTED_ARITHMETIC_MEAN_RANK>>,
      <<<<"a", "a", "m", "r">>, ADJUSTED_ARITHMETIC_MEAN_RANK>>,
      <<<<"a", "m", "r", "i">>, ADJUSTED_ARITHMETIC_MEAN_RANK_INDEX>>,
      <<<<"a", "a", "m", "r", "i">>, ADJUSTED_ARITHMETIC_MEAN_RANK_INDEX>>>>

\* RANK_TYPE_SYNONYMS (lines 422-427), as the tuple of its (key, value) items
RANK_TYPE_SYNONYMS ==
    <<<<<<"b", "e", "s", "t">>, RANK_OPTIMISTIC>>,
      <<<<"w", "o", "r", "s", "t">>, RANK_PESSIMISTIC>>,
      <<<<"a", "v", "g">>, RANK_REALISTIC>>,
      <<<<"a", "v", "e", "r", "a", "g", "e">>, RANK_REALISTIC>>>>

\* dict.get(key, default) on a tuple of items
DictGet(items, key, default) ==
    IF \E i \in DOMAIN items : items[i][1] = key
    THEN items[CHOOSE i \in DOMAIN items : items[i][1] = key][2]
    ELSE default

\* the alternatives of _SIDE_PATTERN and _TYPE_PATTERN (lines 429-430), in order
SIDE_ALTERNATIVES == SIDES
TYPE_ALTERNATIVES == RANK_TYPES \o [i \in DOMAIN RANK_TYPE_SYNONYMS |-> RANK_TYPE_SYNONYMS[i][1]]

\* the alternatives of the prefix group of HITS_PATTERN (line 434), in order
HITS_ALTERNATIVES == <<<<"h", "i", "t", "s", "_", "a", "t", "_">>, <<"h", "i", "t", "s", "@">>, <<"h", "@">>>>

\* the index of the first alternative that the text matches at position i, 0 when none
FirstAlt(s, i, alts) ==
    IF \E a \in DOMAIN alts : StartsWithAt(s, i, alts[a])
    THEN CHOOSE a \in DOMAIN alts :
            /\ StartsWithAt(s, i, alts[a])
            /\ \A b \in 1..(a - 1) : ~StartsWithAt(s, i, alts[b])
    ELSE 0

\* an optional group (\.(alt1|alt2|...))? tried at position i: the matched alternative
\* (None when the group does not take part) and the position after the group
OptionalAltGroup(s, i, alts) ==
    LET a == IF i <= Len(s) /\ s[i] = "." THEN FirstAlt(s, i + 1, alts) ELSE 0
    IN  IF a = 0 THEN [val |-> None, end |-> i]
        ELSE [val |-> Some(alts[a]), end |-> i + 1 + Len(alts[a])]

\* the optional group (\.(?P<k>\d+))? tried at position i
OptionalDigitGroup(s, i) ==
    LET e == IF i <= Len(s) /\ s[i] = "." THEN DigitRunEnd(s, i + 1) ELSE i
    IN  IF e > i + 1 THEN [val |-> Some(Slice(s, i + 1, e)), end |-> e]
        ELSE [val |-> None, end |-> i]

\* METRIC_PATTERN.match(name) (lines 431-433, 439): the groups name, side, type, k;
\* re.match anchors the start only, text after the last group that matched is ignored
METRIC_PATTERN_match(s) ==
    LET e1 == NameRunEnd(s, 1)
        g2 == OptionalAltGroup(s, e1, SIDE_ALTERNATIVES)
        g3 == OptionalAltGroup(s, g2.end, TYPE_ALTERNATIVES)
        g4 == OptionalDigitGroup(s, g3.end)
    IN  IF e1 = 1 THEN [matched |-> FALSE]
        ELSE [matched |-> TRUE, name |-> Slice(s, 1, e1), side |-> g2.val,
              type |-> g3.val, k |-> g4.val, end |-> g4.end]

\* mutant: HITS_PATTERN matches nothing
HITS_PATTERN_no_match(s) == [matched |-> FALSE]

\* HITS_PATTERN.match(name) (lines 434, 454): the group k
HITS_PATTERN_match(s) ==
    LET a == FirstAlt(s, 1, HITS_ALTERNATIVES)
        b == IF a = 0 THEN 1 ELSE Len(HITS_ALTERNATIVES[a]) + 1
        e == IF a = 0 THEN 1 ELSE DigitRunEnd(s, b)
    IN  IF a = 0 \/ e = b THEN [matched |-> FALSE]
        ELSE [matched |-> TRUE, k |-> Slice(s, b, e)]

Raise(exc, msg) == [ok |-> FALSE, exc |-> exc, msg |-> msg]

\* MetricKey (lines 335-341); k is None or Some(int)
MetricKey(name, side, rank_type, k) ==
    [ok |-> TRUE, name |-> name, side |-> side, rank_type |-> rank_type, k |-> k]

\* resolve_metric_name (lines 440-488), given the match of METRIC_PATTERN
resolve_match(match) ==
    LET name1 == replace(lower(match.name), " ", "_")
        hits == HITS_PATTERN_match(name1)
        name2 == IF hits.matched THEN HITS_AT_K ELSE name1
        \* k as a str: the group of HITS_PATTERN, else the group of METRIC_PATTERN
        kstr == IF hits.matched THEN Some(hits.k) ELSE match.k
        \* lines 458-467: k as an int, for hits_at_k
        kint == IF kstr = None THEN 10 ELSE int(kstr[1])
        name3 == DictGet(METRIC_SYNONYMS, name2, name2)
        side == lower(IF match.side = None THEN SIDE_BOTH ELSE match.side[1])
        type1 == lower(IF match.type = None THEN RANK_REALISTIC ELSE match.type[1])
        rank_type == DictGet(RANK_TYPE_SYNONYMS, type1, type1)
    IN  IF ~match.matched THEN Raise("ValueError", "Invalid metric name")
        ELSE IF match.name = <<>> THEN Raise("ValueError", "A metric name must be provided.")
        ELSE IF name2 = HITS_AT_K /\ kint < 0
             THEN Raise("ValueError", "For hits_at_k, you must provide a positive value of k")
        ELSE IF name2 # HITS_AT_K /\ kstr # None
             THEN Raise("AssertionError", "k is a str")
        ELSE IF side \notin Range(SIDES) THEN Raise("ValueError", "Invalid side")
        ELSE IF rank_type \notin Range(RANK_TYPES) THEN Raise("ValueError", "Invalid rank type")
        ELSE IF rank_type # RANK_REALISTIC /\ name3 \in TYPES_REALISTIC_ONLY
             THEN Raise("ValueError", "Invalid rank type for metric")
        ELSE MetricKey(name3, side, rank_type,
                       IF name2 = HITS_AT_K THEN Some(kint) ELSE None)

\* resolve_metric_name (lines 437-488)
resolve_metric_name(s) == resolve_match(METRIC_PATTERN_match(s))

\* lines 541-543 of get_metric, given the resolved key: the value returned, or the
\* exception raised
get_metric_of_key(res, key) ==
    IF ~key.ok THEN [exc |-> key.exc, val |-> None]
    ELSE IF ~startswith(key.name, <<"h", "i", "t", "s">>)
         THEN (IF <<key.name, key.side, key.rank_type>> \in DOMAIN res
               THEN [exc |-> "none", val |-> Some(res[<<key.name, key.side, key.rank_type>>])]
               ELSE [exc |-> "KeyError", val |-> None])
    ELSE [exc |-> "NotImplementedError", val |-> None]

\* RankBasedMetricResults.get_metric (lines 498-543) on the results dict res
get_metric(res, s) == get_metric_of_key(res, resolve_metric_name(s))

\* the attributes of a RankBasedMetricResults: __init__ (lines 494-496) sets results,
\* and the class body defines no other
RESULTS_ATTRIBUTES == {"results"}

\* _iter_rows (lines 552-561): the first iteration over itt.product(SIDES, RANK_TYPES)
\* reads self.hits_at_k before any row is yielded, which raises AttributeError on an
\* object without that attribute; with the attribute, the rows are its hits_at_k items
_iter_rows(attributes) ==
    IF Range(SIDES) \X Range(RANK_TYPES) = {} THEN [exc |-> "none", rows |-> <<>>]
    ELSE IF "hits_at_k" \notin attributes THEN [exc |-> "AttributeError", rows |-> <<>>]
    ELSE [exc |-> "none", rows |-> <<>>]

\* to_flat_dict (lines 545-546): the dict built from the rows, as the tuple of its items
\* (key "side.rank_type.metric_name", value)
to_flat_dict(attributes) ==
    [exc |-> _iter_rows(attributes).exc,
     val |-> [i \in DOMAIN _iter_rows(attributes).rows |->
                <<_iter_rows(attributes).rows[i][1] \o <<".">>
                    \o _iter_rows(attributes).rows[i][2] \o <<".">>
                    \o _iter_rows(attributes).rows[i][3],
                  _iter_rows(attributes).rows[i][4]>>]]

\* to_df (lines 548-550): the rows of the data frame
to_df(attributes) ==
    [exc |-> _iter_rows(attributes).exc, val |-> _iter_rows(attributes).rows]

----------------------------------------------------------------------------
(* The canonical metric names (lines 306-323, and "hits_at_k" of line 456) *)
(* as the tuple of (class, canonical name) items.                          *)

CANONICAL_NAMES ==
    <<<<ArithmeticMeanRank, <<"a", "r", "i", "t", "h", "m", "e", "t", "i", "c", "_", "m", "e", "a", "n", "_", "r", "a", "n", "k">>>>,
      <<InverseArithmeticMeanRank, <<"i", "n", "v", "e", "r", "s", "e", "_", "a", "r", "i", "t", "h", "m", "e", "t", "i", "c", "_", "m", "e", "a", "n", "_", "r", "a", "n", "k">>>>,
      <<GeometricMeanRank, <<"g", "e", "o", "m", "e", "t", "r", "i", "c", "_", "m", "e", "a", "n", "_", "r", "a", "n", "k">>>>,
      <<InverseGeometricMeanRank, <<"i", "n", "v", "e", "r", "s", "e", "_", "g", "e", "o", "m", "e", "t", "r", "i", "c", "_", "m", "e", "a", "n", "_", "r", "a", "n", "k">>>>,
      <<HarmonicMeanRank, <<"h", "a", "r", "m", "o", "n", "i", "c", "_", "m", "e", "a", "n", "_", "r", "a", "n", "k">>>>,
      <<InverseHarmonicMeanRank, <<"i", "n", "v", "e", "r", "s", "e", "_", "h", "a", "r", "m", "o", "n", "i", "c", "_", "m", "e", "a", "n", "_", "r", "a", "n", "k">>>>,
      <<MedianRank, <<"m", "e", "d", "i", "a", "n", "_", "r", "a", "n", "k">>>>,
      <<InverseMedianRank, <<"i", "n", "v", "e", "r", "s", "e", "_", "m", "e", "d", "i", "a", "n", "_", "r", "a", "n", "k">>>>,
      <<StandardDeviation, <<"r", "a", "n", "k", "_", "s", "t", "d">>>>,
      <<Variance, <<"r", "a", "n", "k", "_", "v", "a", "r">>>>,
      <<MedianAbsoluteDeviation, <<"r", "a", "n", "k", "_", "m", "a", "d">>>>,
      <<Count, <<"r", "a", "n", "k", "_", "c", "o", "u", "n", "t">>>>,
      <<AdjustedArithmeticMeanRank, <<"a", "d", "j", "u", "s", "t", "e", "d", "_", "a", "r", "i", "t", "h", "m", "e", "t", "i", "c", "_", "m", "e", "a", "n", "_", "r", "a", "n", "k">>>>,
      <<AdjustedArithmeticMeanRankIndex, <<"a", "d", "j", "u", "s", "t", "e", "d", "_", "a", "r", "i", "t", "h", "m", "e", "t", "i", "c", "_", "m", "e", "a", "n", "_", "r", "a", "n", "k", "_", "i", "n", "d", "e", "x">>>>,
      <<HitsAtK, <<"h", "i", "t", "s", "_", "a", "t", "_", "k">>>>>>

canonical_name(cls) == DictGet(CANONICAL_NAMES, cls, <<>>)

\* the query "<name>.<side>.<rank type>"
DottedQuery(name, side, rank_type) == name \o <<".">> \o side \o <<".">> \o rank_type

\* str(k) for an int k >= 0
RECURSIVE str_int(_)
str_int(k) == IF k < 10 THEN <<DIGITS[k + 1]>> ELSE str_int(k \div 10) \o <<DIGITS[(k % 10) + 1]>>

\* MetricKey.__str__ (lines 343-347): the k is appended `if self.k`, that is when it is
\* neither None nor 0
MetricKey_str(key) ==
    DottedQuery(key.name, key.side, key.rank_type)
    \o (IF key.k # None /\ key.k[1] # 0 THEN <<".">> \o str_int(key.k[1]) ELSE <<>>)

----------------------------------------------------------------------------
(* Inputs.                                                                 *)

\* the batch of test_compute_rank_from_scores (src/tests/test_evaluators.py, 183-191)
TEST_ALL_SCORES ==
    <<<<Num(2), Num(2), Num(1), Num(3), Num(5)>>,
      <<Num(1), Num(1), Num(3), Num(4), Num(0)>>,
      <<Num(1), Num(1), Num(3), NaN, Num(0)>>>>
TEST_TRUE_SCORE == <<Num(2), Num(3), Num(3)>>

\* bounds of the inputs of compute_rank_from_scores
MaxScore == 3
MaxCols == 3

\* the scores a candidate or a true triple may have: 1..MaxScore, NaN, +inf, -inf
Scores == {Num(v) : v \in 1..MaxScore} \cup {NaN, PosInf, NegInf}

\* the batches compute_rank_from_scores is applied to: every one-row batch over Scores
\* with 1..MaxCols candidates, and the batch of the test
RankInputs ==
    {[ts |-> <<t>>, as |-> <<row>>] :
        t \in Scores, row \in UNION {[1..n -> Scores] : n \in 1..MaxCols}}
    \cup {[ts |-> TEST_TRUE_SCORE, as |-> TEST_ALL_SCORES]}

\* bounds of one evaluation run: the rows and the update calls accumulated
MaxRows == 2
MaxUpdates == 3

\* the batches an update of the evaluator receives: rows of the test batch, in any
\* order and number
EvalBatches(maxlen) ==
    {[ts |-> [i \in DOMAIN ix |-> TEST_TRUE_SCORE[ix[i]]],
      as |-> [i \in DOMAIN ix |-> TEST_ALL_SCORES[ix[i]]]] :
        ix \in SeqsUpTo(DOMAIN TEST_TRUE_SCORE, maxlen)}

\* the ks an evaluator is constructed with
KsChoices == {DEFAULT_KS, <<PyFloat(3, 2)>>}

\* the queries get_metric is called with: canonical names with side and rank type,
\* a normalised class name, and examples of the docstring of get_metric and of
\* test_resolve_metric_name
Queries ==
    {DottedQuery(canonical_name(Count), SIDE_HEAD, RANK_OPTIMISTIC),
     DottedQuery(canonical_name(ArithmeticMeanRank), SIDE_BOTH, RANK_REALISTIC),
     DottedQuery(canonical_name(AdjustedArithmeticMeanRankIndex), SIDE_BOTH, RANK_REALISTIC),
     DottedQuery(normalize_inst([cls |-> Count]), SIDE_TAIL, RANK_PESSIMISTIC),
     <<"m", "r", "r">>,
     <<"a", "m", "r", "i", ".", "a", "v", "g">>,
     <<"a", "m", "r", ".", "o", "p", "t", "i", "m", "i", "s", "t", "i", "c">>,
     <<"h", "i", "t", "s", "@", "5">>,
     <<"h", "i", "t", "s", "_", "a", "t", "_", "k", ".", "h", "e", "a", "d", ".", "o", "p", "t", "i", "m", "i", "s", "t", "i", "c", ".", "3">>,
     <<"m", "e", "a", "n", "_", "r", "a", "n", "k", ".", "3">>}

\* the largest k written in a query
MaxK == 3

\* the metric names of the queries resolve_metric_name is applied to: the synonyms and
\* abbreviations of the metric classes, canonical names, names in upper case or with a
\* space, the empty name, and the three Hits@k forms for k in 0..MaxK and 10
QueryNames ==
    {<<"m", "r">>,
     <<"m", "e", "a", "n", "_", "r", "a", "n", "k">>,
     <<"m", "r", "r">>,
     <<"m", "e", "a", "n", "_", "r", "e", "c", "i", "p", "r", "o", "c", "a", "l", "_", "r", "a", "n", "k">>,
     <<"g", "m", "r">>,
     <<"h", "m", "r">>,
     <<"a", "m", "r">>,
     <<"a", "a", "m", "r">>,
     <<"a", "m", "r", "i">>,
     <<"a", "a", "m", "r", "i">>,
     <<"a", "d", "j", "u", "s", "t", "e", "d", "_", "m", "e", "a", "n", "_", "r", "a", "n", "k">>,
     <<"a", "d", "j", "u", "s", "t", "e", "d", "_", "m", "e", "a", "n", "_", "r", "a", "n", "k", "_", "i", "n", "d", "e", "x">>,
     <<"a", "r", "i", "t", "h", "m", "e", "t", "i", "c", "_", "m", "e", "a", "n", "_", "r", "a", "n", "k">>,
     <<"i", "n", "v", "e", "r", "s", "e", "_", "h", "a", "r", "m", "o", "n", "i", "c", "_", "m", "e", "a", "n", "_", "r", "a", "n", "k">>,
     <<"g", "e", "o", "m", "e", "t", "r", "i", "c", "_", "m", "e", "a", "n", "_", "r", "a", "n", "k">>,
     <<"h", "a", "r", "m", "o", "n", "i", "c", "_", "m", "e", "a", "n", "_", "r", "a", "n", "k">>,
     <<"a", "d", "j", "u", "s", "t", "e", "d", "_", "a", "r", "i", "t", "h", "m", "e", "t", "i", "c", "_", "m", "e", "a", "n", "_", "r", "a", "n", "k">>,
     <<"a", "d", "j", "u", "s", "t", "e", "d", "_", "a", "r", "i", "t", "h", "m", "e", "t", "i", "c", "_", "m", "e", "a", "n", "_", "r", "a", "n", "k", "_", "i", "n", "d", "e", "x">>,
     <<"h", "i", "t", "s", "_", "a", "t", "_", "k">>,
     <<"M", "e", "a", "n", " ", "R", "a", "n", "k">>,
     <<"M", "R", "R">>,
     <<"A", "M", "R">>,
     <<"A", "d", "j", "u", "s", "t", "e", "d", "_", "M", "e", "a", "n", "_", "R", "a", "n", "k", "_", "I", "n", "d", "e", "x">>,
     <<"H", "@", "1", "0">>,
     <<"H", "i", "t", "s", "@", "K">>,
     <<>>}
    \cup {p \o str_int(k) : p \in Range(HITS_ALTERNATIVES), k \in 0..MaxK \cup {10}}

\* the components that follow the name: a side, a rank type and a k, each optional,
\* among them a side and rank types that do not exist and ones in upper case
QuerySides ==
    {<<>>,
     <<".", "h", "e", "a", "d">>,
     <<".", "t", "a", "i", "l">>,
     <<".", "b", "o", "t", "h">>,
     <<".", "l", "e", "f", "t">>,
     <<".", "T", "A", "I", "L">>}
QueryTypes ==
    {<<>>,
     <<".", "o", "p", "t", "i", "m", "i", "s", "t", "i", "c">>,
     <<".", "r", "e", "a", "l", "i", "s", "t", "i", "c">>,
     <<".", "p", "e", "s", "s", "i", "m", "i", "s", "t", "i", "c">>,
     <<".", "b", "e", "s", "t">>,
     <<".", "w", "o", "r", "s", "t">>,
     <<".", "a", "v", "g">>,
     <<".", "a", "v", "e", "r", "a", "g", "e">>,
     <<".", "W", "o", "r", "s", "t">>,
     <<".", "m", "e", "d", "i", "a", "n">>}
QueryKs == {<<>>} \cup {<<".">> \o str_int(k) : k \in 0..MaxK}

ResolveQueries ==
    {n \o s \o ty \o k : n \in QueryNames, s \in QuerySides, ty \in QueryTypes, k \in QueryKs}

----------------------------------------------------------------------------
(* The evaluator as a state machine.                                       *)

\* the buffers of a freshly constructed evaluator (lines 606-607)
EmptyRanks == [rt \in Range(RANK_TYPES) |-> [side \in Range(REAL_SIDES) |-> <<>>]]
EmptyOptions == <<>>

\* whether __init__ returned an evaluator
constructed == ~(op = "__init__" /\ err # "none")

\* RankBasedEvaluator.__init__ (lines 576-607)
Construct(arg_ks) ==
    /\ op = "__init__"
    /\ ks = arg_ks
    /\ IF ks_valid(arg_ks)
       THEN /\ metrics = metrics_dict(metric_instances(arg_ks))
            /\ ranks = EmptyRanks
            /\ err = "none"
       ELSE /\ metrics = <<>>
            /\ ranks = <<>>
            /\ err = "ValueError"
    /\ number_of_options = EmptyOptions
    /\ result = <<>>
    /\ finalized = FALSE
    /\ query = <<>>
    /\ ret = None

RankIdle ==
    /\ true_score = <<>>
    /\ all_scores = <<>>
    /\ batch_ranks = compute_rank_from_scores(<<>>, <<>>)
    /\ rank_pc = "idle"

\* the evaluator is no SampledRankBasedEvaluator
NoSampling ==
    /\ evaluation_factory = None
    /\ additional_filter_triples = None
    /\ num_negatives = None
    /\ negatives = None
    /\ negative_samples = None
    /\ triple_to_index = None
    /\ num_entities = None
    /\ hrt_batch = None
    /\ scores = None

Init == RankIdle /\ NoSampling /\ \E arg_ks \in KsChoices : Construct(arg_ks)

\* the chunks and the rows accumulated in the current run
NumChunks == Len(get_or_empty(number_of_options, SIDE_HEAD)) + Len(get_or_empty(number_of_options, SIDE_TAIL))
NumRows == Len(Flatten(get_or_empty(number_of_options, SIDE_HEAD)))
           + Len(Flatten(get_or_empty(number_of_options, SIDE_TAIL)))

\* process_head_scores_ (lines 638-645)
process_head_scores_ ==
    /\ constructed
    /\ NumChunks < MaxUpdates
    /\ \E b \in EvalBatches(MaxRows - NumRows) : _update_ranks_(b.ts, b.as, SIDE_HEAD)
    /\ op' = "process_head_scores_"
    /\ UNCHANGED <<ks, metrics, result, finalized, query, ret>>
    /\ UNCHANGED rank_vars
    /\ UNCHANGED sampled_vars

\* process_tail_scores_ (lines 629-636)
process_tail_scores_ ==
    /\ constructed
    /\ NumChunks < MaxUpdates
    /\ \E b \in EvalBatches(MaxRows - NumRows) : _update_ranks_(b.ts, b.as, SIDE_TAIL)
    /\ op' = "process_tail_scores_"
    /\ UNCHANGED <<ks, metrics, result, finalized, query, ret>>
    /\ UNCHANGED rank_vars
    /\ UNCHANGED sampled_vars

\* finalize (lines 659-679)
finalize ==
    /\ constructed
    /\ op' = "finalize"
    /\ err' = finalize_error(ranks, number_of_options)
    /\ IF finalize_error(ranks, number_of_options) = "none"
       THEN /\ result' = finalize_result(metrics, ranks, number_of_options)
            /\ ranks' = <<>>
            /\ number_of_options' = <<>>
            /\ finalized' = TRUE
       ELSE UNCHANGED <<result, ranks, number_of_options, finalized>>
    /\ UNCHANGED <<ks, metrics, query, ret>>
    /\ UNCHANGED rank_vars
    /\ UNCHANGED sampled_vars

\* RankBasedMetricResults.get_metric(name) on the result of the last finalize
GetMetric ==
    /\ finalized
    /\ \E q \in Queries :
          \E r \in {get_metric(result, q)} :
              /\ query' = q
              /\ err' = r.exc
              /\ ret' = r.val
    /\ op' = "get_metric"
    /\ UNCHANGED <<ks, metrics, ranks, number_of_options, result, finalized>>
    /\ UNCHANGED rank_vars
    /\ UNCHANGED sampled_vars

\* RankBasedMetricResults.to_flat_dict() on the result of the last finalize
ToFlatDict ==
    /\ finalized
    /\ op' = "to_flat_dict"
    /\ err' = to_flat_dict(RESULTS_ATTRIBUTES).exc
    /\ ret' = IF to_flat_dict(RESULTS_ATTRIBUTES).exc = "none"
              THEN Some(to_flat_dict(RESULTS_ATTRIBUTES).val) ELSE None
    /\ query' = <<>>
    /\ UNCHANGED <<ks, metrics, ranks, number_of_options, result, finalized>>
    /\ UNCHANGED rank_vars
    /\ UNCHANGED sampled_vars

\* RankBasedMetricResults.to_df() on the result of the last finalize
ToDf ==
    /\ finalized
    /\ op' = "to_df"
    /\ err' = to_df(RESULTS_ATTRIBUTES).exc
    /\ ret' = IF to_df(RESULTS_ATTRIBUTES).exc = "none"
              THEN Some(to_df(RESULTS_ATTRIBUTES).val) ELSE None
    /\ query' = <<>>
    /\ UNCHANGED <<ks, metrics, ranks, number_of_options, result, finalized>>
    /\ UNCHANGED rank_vars
    /\ UNCHANGED sampled_vars

Next ==
    \/ process_head_scores_
    \/ process_tail_scores_
    \/ finalize
    \/ GetMetric
    \/ ToFlatDict
    \/ ToDf

Spec == Init /\ [][Next]_vars

----------------------------------------------------------------------------
(* The evaluator constructed with other Hits@k thresholds.                 *)

\* thresholds other than the default: a zero and a negative int, floats inside and
\* outside of (0, 1)
KsThresholds ==
    {<<PyInt(0)>>, <<PyInt(-1), PyInt(2)>>, <<PyFloat(1, 2)>>,
     <<PyFloat(0, 1)>>, <<PyFloat(1, 1)>>, <<PyFloat(-1, 2)>>, <<PyInt(1), PyFloat(3, 2)>>}

InitKs == RankIdle /\ NoSampling /\ \E arg_ks \in KsThresholds : Construct(arg_ks)

SpecKs == InitKs /\ [][Next]_vars

----------------------------------------------------------------------------
(* compute_rank_from_scores as a state machine: the arguments are chosen   *)
(* initially, the call computes the Ranks.                                 *)

\* no evaluator takes part in the rank computation
NoEvaluator ==
    /\ ks = <<>>
    /\ metrics = <<>>
    /\ ranks = <<>>
    /\ number_of_options = <<>>
    /\ result = <<>>
    /\ finalized = FALSE
    /\ op = "none"
    /\ err = "none"
    /\ query = <<>>
    /\ ret = None

InitRank ==
    /\ \E b \in RankInputs : true_score = b.ts /\ all_scores = b.as
    /\ batch_ranks = compute_rank_from_scores(<<>>, <<>>)
    /\ rank_pc = "input"
    /\ NoEvaluator
    /\ NoSampling

ComputeRank ==
    /\ rank_pc = "input"
    /\ batch_ranks' = compute_rank_from_scores(true_score, all_scores)
    /\ rank_pc' = "done"
    /\ UNCHANGED <<true_score, all_scores>>
    /\ UNCHANGED eval_vars
    /\ UNCHANGED sampled_vars

NextRank == ComputeRank

SpecRank == InitRank /\ [][NextRank]_vars

----------------------------------------------------------------------------
(* resolve_metric_name as a state machine: the query is chosen initially,  *)
(* the call resolves it, and the string form of the key it returned is     *)
(* resolved again.                                                         *)

InitResolve ==
    /\ RankIdle
    /\ NoSampling
    /\ ks = <<>>
    /\ metrics = <<>>
    /\ ranks = <<>>
    /\ number_of_options = <<>>
    /\ result = <<>>
    /\ finalized = FALSE
    /\ op = "none"
    /\ err = "none"
    /\ query \in ResolveQueries
    /\ ret = None

\* the outcome of resolve_metric_name(s) in err and ret
Resolved(s) ==
    \E key \in {resolve_metric_name(s)} :
        /\ err' = IF key.ok THEN "none" ELSE key.exc
        /\ ret' = IF key.ok THEN Some(key) ELSE None

\* resolve_metric_name(query)
ResolveMetricName ==
    /\ op = "none"
    /\ Resolved(query)
    /\ op' = "resolve_metric_name"
    /\ UNCHANGED <<ks, metrics, ranks, number_of_options, result, finalized, query>>
    /\ UNCHANGED rank_vars
    /\ UNCHANGED sampled_vars

\* resolve_metric_name(str(key)) for the key the first call returned
ResolveStr ==
    /\ op = "resolve_metric_name"
    /\ err = "none"
    /\ query' = MetricKey_str(ret[1])
    /\ Resolved(MetricKey_str(ret[1]))
    /\ op' = "resolve_str"
    /\ UNCHANGED <<ks, metrics, ranks, number_of_options, result, finalized>>
    /\ UNCHANGED rank_vars
    /\ UNCHANGED sampled_vars

NextResolve ==
    \/ ResolveMetricName
    \/ ResolveStr

SpecResolve == InitResolve /\ [][NextResolve]_vars

----------------------------------------------------------------------------
(* Sampled evaluation (lines 682-821).  A triple is <<h, r, t>> of entity  *)
(* and relation ids counted from 0, a tensor of triples the tuple of its   *)
(* rows, a matrix of entity ids the tuple of its rows.                     *)

\* the position in a triple of the column named by side; the other two are the
\* columns `other` of line 719
side_column(side) == IF side = SIDE_HEAD THEN 1 ELSE 3

\* prepare_filter_triples (pykeen/evaluation/evaluator.py): the unique rows of the
\* evaluation triples together with the additional filter triples, None or one tensor
prepare_filter_triples(mapped_triples, additional) ==
    Range(mapped_triples) \cup (IF additional = None THEN {} ELSE Range(additional[1]))

\* a pool that keeps the known entities: every id below max_id
sampling_pool_all_ids(filter, tr, side, max_id) == 0..(max_id - 1)

\* pool of line 724 for the group of evaluation triple tr: the ids below max_id that are
\* not the side's entity of a filter triple agreeing with tr on the other two columns
sampling_pool(filter, tr, side, max_id) ==
    (0..(max_id - 1))
    \ {f[side_column(side)] :
          f \in {g \in filter : \A c \in {1, 2, 3} \ {side_column(side)} : g[c] = tr[c]}}

\* int(math.ceil(num_samples / len(pool))) of line 730, the pool repeated only when it
\* has fewer than num_samples elements
pool_repetitions(pool, num_samples) ==
    IF Cardinality(pool) < num_samples
    THEN (num_samples + Cardinality(pool) - 1) \div Cardinality(pool)
    ELSE 1

\* random.sample(population, k) for the list of the pool repeated reps times: the
\* elements at k distinct positions of the list, in any order
random_sample(pool, reps, k) ==
    {s \in [1..k -> pool] : \A e \in pool : Cardinality({x \in 1..k : s[x] = e}) <= reps}

\* sample_negatives (lines 682-736): the exception raised, or the matrices it can return
sample_negatives(evaluation_triples, side, additional, num_samples, max_id) ==
    LET filter == prepare_filter_triples(evaluation_triples, additional)
        ids == IF max_id # None /\ max_id[1] # 0 THEN max_id[1]
               ELSE 1 + CHOOSE m \in {f[1] : f \in filter} \cup {f[3] : f \in filter} :
                            \A f \in filter : f[1] <= m /\ f[3] <= m
        pool == [i \in DOMAIN evaluation_triples |->
                    sampling_pool(filter, evaluation_triples[i], side, ids)]
    IN  IF \E i \in DOMAIN pool : pool[i] = {} /\ 0 < num_samples
        THEN [exc |-> "ZeroDivisionError", val |-> {}]
        ELSE [exc |-> "none",
              val |-> {m \in [DOMAIN pool -> [1..num_samples -> UNION Range(pool)]] :
                          \A i \in DOMAIN pool :
                              m[i] \in random_sample(pool[i],
                                          pool_repetitions(pool[i], num_samples),
                                          num_samples)}]

\* `num_negatives or 50` of line 782
num_samples_or_default(num_neg) == IF num_neg = None \/ num_neg[1] = 0 THEN 50 ELSE num_neg[1]

\* the loop body of lines 774-791 for one side: the negatives given for the side are
\* kept, else ValueError is raised or the negatives are sampled
side_negatives(factory, additional, num_neg, given, side) ==
    IF given # None THEN {[exc |-> "none", val |-> given[1]]}
    ELSE IF num_samples_or_default(num_neg) > factory.num_entities
    THEN {[exc |-> "ValueError", val |-> <<>>]}
    ELSE IF sample_negatives(factory.mapped_triples, side, additional,
                             num_samples_or_default(num_neg), Some(factory.num_entities)).exc
            # "none"
    THEN {[exc |-> sample_negatives(factory.mapped_triples, side, additional,
                       num_samples_or_default(num_neg), Some(factory.num_entities)).exc,
           val |-> <<>>]}
    ELSE {[exc |-> "none", val |-> m] :
            m \in sample_negatives(factory.mapped_triples, side, additional,
                      num_samples_or_default(num_neg), Some(factory.num_entities)).val}

\* SampledRankBasedEvaluator.__init__ (lines 750-800) after super().__init__: the
\* exception raised, or the negative_samples the evaluator can hold
sampled_init(factory, additional, num_neg, negs) ==
    {[exc |-> IF h.exc # "none" THEN h.exc
              ELSE IF t.exc # "none" THEN t.exc
              ELSE IF Len(h.val) # Len(factory.mapped_triples)
                      \/ Len(t.val) # Len(factory.mapped_triples) THEN "ValueError"
              ELSE "none",
      negative_samples |->
          IF h.exc = "none" /\ t.exc = "none"
             /\ Len(h.val) = Len(factory.mapped_triples)
             /\ Len(t.val) = Len(factory.mapped_triples)
          THEN Some([s \in Range(REAL_SIDES) |-> IF s = SIDE_HEAD THEN h.val ELSE t.val])
          ELSE None] :
        h \in side_negatives(factory, additional, num_neg,
                 IF negs = None THEN None ELSE negs[1][SIDE_HEAD], SIDE_HEAD),
        t \in side_negatives(factory, additional, num_neg,
                 IF negs = None THEN None ELSE negs[1][SIDE_TAIL], SIDE_TAIL)}

\* the dict comprehension of line 798: the last row holding a triple is its index
triple_index(mapped_triples) ==
    [tr \in Range(mapped_triples) |->
        CHOOSE i \in DOMAIN mapped_triples :
            mapped_triples[i] = tr /\ \A j \in DOMAIN mapped_triples : mapped_triples[j] = tr => j <= i]

\* lines 810-817 of SampledRankBasedEvaluator._update_ranks_: the true score of each row
\* followed by the scores at the entity columns of the triple's row of negatives
sampled_scores(ts, as, side, batch) ==
    [i \in DOMAIN batch |->
        <<ts[i]>> \o [j \in DOMAIN negative_samples[1][side][triple_to_index[1][batch[i]]] |->
                        as[i][negative_samples[1][side][triple_to_index[1][batch[i]]][j] + 1]]]

\* SampledRankBasedEvaluator._update_ranks_ (lines 802-821)
sampled_update_ranks_(ts, as, side, batch) ==
    IF \E i \in DOMAIN batch : batch[i] \notin DOMAIN triple_to_index[1]
    THEN /\ err' = "KeyError"
         /\ UNCHANGED <<ranks, number_of_options, true_score, all_scores, batch_ranks,
                        num_entities>>
    ELSE \E cat \in {sampled_scores(ts, as, side, batch)} :
            /\ _update_ranks_(ts, cat, side)
            /\ true_score' = ts
            /\ all_scores' = cat
            /\ batch_ranks' = compute_rank_from_scores(ts, cat)
            /\ num_entities' = IF FirstMissing(ranks) <= Len(RANK_TYPES) THEN num_entities
                               ELSE Some(Len(as[1]))

\* bound of the inputs of the sampled evaluator: the largest num_negatives requested
MaxNegatives == 2

\* the evaluation factories: triples of one relation that share a head or a tail, over
\* three, two and one entities; in the fourth, every tail of (0, 0) is a known triple
EvaluationFactories ==
    {[mapped_triples |-> << <<0, 0, 1>> >>, num_entities |-> 3],
     [mapped_triples |-> << <<0, 0, 1>>, <<0, 0, 2>> >>, num_entities |-> 3],
     [mapped_triples |-> << <<0, 0, 1>>, <<2, 0, 1>> >>, num_entities |-> 3],
     [mapped_triples |-> << <<0, 0, 0>>, <<0, 0, 1>> >>, num_entities |-> 2],
     [mapped_triples |-> << <<1, 0, 0>> >>, num_entities |-> 2],
     [mapped_triples |-> << <<0, 0, 0>> >>, num_entities |-> 1]}

\* the arguments of SampledRankBasedEvaluator.__init__: a factory, no or one tensor of
\* additional filter triples over its entities, num_negatives, and negatives given for
\* no side, one side or both sides (one negative per triple, or no row at all)
SampledArguments ==
    UNION {
        {[evaluation_factory |-> f, additional_filter_triples |-> a, num_negatives |-> k,
          negatives |-> n] :
            a \in {None, Some(<< <<0, 0, 0>> >>), Some(<< <<0, 0, 2>>, <<1, 0, 1>> >>)},
            k \in {None} \cup {Some(x) : x \in 0..MaxNegatives},
            n \in {None}
                  \cup {Some([s \in Range(REAL_SIDES) |-> IF s \in g THEN Some(m) ELSE None]) :
                          g \in {{SIDE_HEAD}, {SIDE_TAIL}, {SIDE_HEAD, SIDE_TAIL}},
                          m \in {[i \in DOMAIN f.mapped_triples |-> <<f.num_entities - 1>>],
                                 <<>>}}} :
        f \in EvaluationFactories}

\* SampledRankBasedEvaluator(evaluation_factory, ...) with the default ks
InitSampled ==
    /\ RankIdle
    /\ op = "__init__"
    /\ ks = DEFAULT_KS
    /\ metrics = metrics_dict(metric_instances(DEFAULT_KS))
    /\ ranks = EmptyRanks
    /\ number_of_options = EmptyOptions
    /\ result = <<>>
    /\ finalized = FALSE
    /\ query = <<>>
    /\ ret = None
    /\ hrt_batch = None
    /\ scores = None
    /\ \E a \in SampledArguments :
          \E o \in sampled_init(a.evaluation_factory, a.additional_filter_triples,
                                a.num_negatives, a.negatives) :
              /\ evaluation_factory = a.evaluation_factory
              /\ additional_filter_triples = a.additional_filter_triples
              /\ num_negatives = a.num_negatives
              /\ negatives = a.negatives
              /\ err = o.exc
              /\ negative_samples = o.negative_samples
              /\ triple_to_index = IF o.exc = "none"
                                   THEN Some(triple_index(a.evaluation_factory.mapped_triples))
                                   ELSE None
              /\ num_entities = IF o.exc = "none" THEN Some(a.evaluation_factory.num_entities)
                                ELSE None

\* the batches a sampled update receives: one triple, or all triples, of the evaluation
\* set, scored by the model of TestEvaluationFiltering (src/tests/test_evaluators.py,
\* 434-437), which gives the highest score to the highest entity id
SampledBatches(side) ==
    {[hrt |-> b,
      ts |-> [i \in DOMAIN b |-> Num(b[i][side_column(side)] + 1)],
      as |-> [i \in DOMAIN b |-> [e \in 1..evaluation_factory.num_entities |-> Num(e)]]] :
        b \in {<<tr>> : tr \in Range(evaluation_factory.mapped_triples)}
              \cup {evaluation_factory.mapped_triples}}

\* process_head_scores_ and process_tail_scores_ (lines 629-645) of a sampled evaluator
sampled_process_scores_(side) ==
    /\ constructed
    /\ NumChunks < MaxUpdates
    /\ \E b \in SampledBatches(side) :
          /\ NumRows + Len(b.hrt) <= MaxRows
          /\ hrt_batch' = Some(b.hrt)
          /\ scores' = Some(b.as)
          /\ sampled_update_ranks_(b.ts, b.as, side, b.hrt)
    /\ UNCHANGED <<ks, metrics, result, finalized, query, ret, rank_pc>>
    /\ UNCHANGED <<evaluation_factory, additional_filter_triples, num_negatives, negatives,
                   negative_samples, triple_to_index>>

sampled_process_head_scores_ ==
    sampled_process_scores_(SIDE_HEAD) /\ op' = "process_head_scores_"

sampled_process_tail_scores_ ==
    sampled_process_scores_(SIDE_TAIL) /\ op' = "process_tail_scores_"

\* finalize is inherited from RankBasedEvaluator
NextSampled ==
    \/ sampled_process_head_scores_
    \/ sampled_process_tail_scores_
    \/ finalize

SpecSampled == InitSampled /\ [][NextSampled]_vars

----------------------------------------------------------------------------
(* Properties of compute_rank_from_scores, checked under SpecRank.         *)

\* the position of a score on the extended real line; the scores are whole numbers
\* or infinite, and NaN has no position
ScoreKey(x) == IF IsInf(x) THEN x.n * (MaxScore + 10) ELSE x.n
StrictlyGreater(x, t) == ~IsNaN(x) /\ ~IsNaN(t) /\ ScoreKey(x) > ScoreKey(t)
SameScore(x, t) == ~IsNaN(x) /\ ~IsNaN(t) /\ ScoreKey(x) = ScoreKey(t)

\* the number of entries of a row that satisfy a test
Entries(row, Test(_)) == Cardinality({j \in DOMAIN row : Test(row[j])})

\* C1: for every row of every batch, the optimistic rank is the number of candidates
\* strictly greater than the true score plus one, the pessimistic rank the number of
\* candidates greater than or equal to it, and the realistic rank their average; the
\* candidates [2,2,1,3,5] with true score 2 give 3, 4 and 3.5.
C1_RankFormulas ==
    rank_pc = "done" =>
        /\ \A i \in DOMAIN true_score :
              LET gt == Entries(all_scores[i], LAMBDA x : StrictlyGreater(x, true_score[i]))
                  eq == Entries(all_scores[i], LAMBDA x : SameScore(x, true_score[i]))
              IN  /\ batch_ranks.optimistic[i] = Num(gt + 1)
                  /\ batch_ranks.pessimistic[i] = Num(gt + eq)
                  /\ batch_ranks.realistic[i] = Rat(2 * gt + eq + 1, 2)
        /\ (true_score = TEST_TRUE_SCORE /\ all_scores = TEST_ALL_SCORES) =>
              /\ batch_ranks.optimistic[1] = Num(3)
              /\ batch_ranks.pessimistic[1] = Num(4)
              /\ batch_ranks.realistic[1] = Rat(7, 2)

\* the ranks of the batch of the test have been computed, the first row having ties
C1_Witness ==
    /\ rank_pc = "done"
    /\ true_score = TEST_TRUE_SCORE
    /\ all_scores = TEST_ALL_SCORES
    /\ batch_ranks.optimistic = <<Num(3), Num(2), Num(1)>>
    /\ batch_ranks.pessimistic = <<Num(4), Num(2), Num(1)>>

\* C2: in every row whose true score is a number that occurs among the candidates,
\* 1 <= optimistic <= realistic <= pessimistic.
C2_RankOrdering ==
    rank_pc = "done" =>
        \A i \in DOMAIN true_score :
            (/\ ~IsNaN(true_score[i])
             /\ \E j \in DOMAIN all_scores[i] : all_scores[i][j] = true_score[i])
            => /\ FLe(Num(1), batch_ranks.optimistic[i])
               /\ FLe(batch_ranks.optimistic[i], batch_ranks.realistic[i])
               /\ FLe(batch_ranks.realistic[i], batch_ranks.pessimistic[i])

\* a row with the true score among the candidates, a tie and a better candidate: the
\* three ranks differ and are above one
C2_Witness ==
    /\ rank_pc = "done"
    /\ \E i \in DOMAIN true_score :
          /\ \E j \in DOMAIN all_scores[i] : all_scores[i][j] = true_score[i]
          /\ FLt(Num(1), batch_ranks.optimistic[i])
          /\ FLt(batch_ranks.optimistic[i], batch_ranks.realistic[i])
          /\ FLt(batch_ranks.realistic[i], batch_ranks.pessimistic[i])

\* C3: a row of N candidates with m NaN entries has number_of_options = N - m, and
\* no NaN entry is counted in the strictly-greater count or the greater-or-equal count.
C3_NaNExclusion ==
    rank_pc = "done" =>
        \A i \in DOMAIN true_score :
            LET row == all_scores[i]
                nonNaN == {j \in DOMAIN row : ~IsNaN(row[j])}
            IN  /\ batch_ranks.number_of_options[i] = Num(Cardinality(nonNaN))
                /\ batch_ranks.optimistic[i]
                      = Num(Cardinality({j \in nonNaN : FGt(row[j], true_score[i])}) + 1)
                /\ batch_ranks.pessimistic[i]
                      = Num(Cardinality({j \in nonNaN : FGe(row[j], true_score[i])}))

----------------------------------------------------------------------------
(* Properties of RankBasedEvaluator and of its report, checked under Spec. *)

\* the rows accumulated for a side in the current run; "both" has those of the two
RowsOf(side) ==
    IF side = SIDE_BOTH
    THEN Len(Flatten(get_or_empty(number_of_options, SIDE_HEAD)))
         + Len(Flatten(get_or_empty(number_of_options, SIDE_TAIL)))
    ELSE Len(Flatten(get_or_empty(number_of_options, side)))

\* no update was made for the side in the current run
NoUpdates(side) == get_or_empty(number_of_options, side) = <<>>

\* the entries of a report for a side
EntriesOf(res, side) == {key \in DOMAIN res : key[2] = side}

\* C4: after finalize() returned, an update for the head or the tail side succeeds
\* without error.
C4_ReadyAfterFinalize ==
    (finalized /\ op \in {"process_head_scores_", "process_tail_scores_"}) => err = "none"

\* C5: finalize() with nothing accumulated, on a fresh evaluator or a second time in
\* a row, returns an empty report and does not raise.
C5_EmptyFinalize ==
    [][(constructed /\ op' = "finalize" /\ NoUpdates(SIDE_HEAD) /\ NoUpdates(SIDE_TAIL))
        => (err' = "none" /\ result' = <<>>)]_vars

\* C6: with updates accumulated for one of the sides head and tail only, finalize()
\* does not raise; the report has entries for the side with data and none for the
\* side without.
C6_OneSideOnly ==
    [][\A i, j \in DOMAIN REAL_SIDES :
          (/\ op' = "finalize"
           /\ RowsOf(REAL_SIDES[i]) >= 1
           /\ NoUpdates(REAL_SIDES[j]))
          => /\ err' = "none"
             /\ EntriesOf(result', REAL_SIDES[i]) # {}
             /\ EntriesOf(result', REAL_SIDES[j]) = {}]_vars

\* C7: a finalize() after head updates of H rows and tail updates of T rows in total
\* records the rank count H for head, T for tail and H + T for both, the same for
\* each of the three rank types.
C7_CountPerSide ==
    [][(op' = "finalize" /\ err' = "none")
        => \A side \in Range(SIDES), rt \in Range(RANK_TYPES) :
              RowsOf(side) >= 1
              => /\ <<<<"c", "o", "u", "n", "t">>, side, rt>> \in DOMAIN result'
                 /\ result'[<<<<"c", "o", "u", "n", "t">>, side, rt>>] = Num(RowsOf(side))]_vars

\* a report of a run of one head row and one tail row: the counts are 1, 1 and 2
C7_Witness ==
    /\ op = "finalize"
    /\ err = "none"
    /\ \A rt \in Range(RANK_TYPES) :
          /\ \A side \in Range(SIDES) : <<<<"c", "o", "u", "n", "t">>, side, rt>> \in DOMAIN result
          /\ result[<<<<"c", "o", "u", "n", "t">>, SIDE_HEAD, rt>>] = Num(1)
          /\ result[<<<<"c", "o", "u", "n", "t">>, SIDE_TAIL, rt>>] = Num(1)
          /\ result[<<<<"c", "o", "u", "n", "t">>, SIDE_BOTH, rt>>] = Num(2)

\* C8: in the report of finalize(), for every side with data, AMR and AMRI are
\* recorded for the realistic rank type only, and every other metric of the registry
\* for all three rank types.
C8_RankTypesPerMetric ==
    [][(op' = "finalize" /\ err' = "none")
        => \A side \in Range(SIDES) :
              RowsOf(side) >= 1
              => \A m \in DOMAIN metrics, rt \in Range(RANK_TYPES) :
                    (<<m, side, rt>> \in DOMAIN result')
                    <=> (\/ rt = RANK_REALISTIC
                         \/ metrics[m].cls \notin {AdjustedArithmeticMeanRank,
                                                   AdjustedArithmeticMeanRankIndex})]_vars

\* a report with AMR and AMRI for the realistic ranks of both sides and for no other
\* rank type, and with the arithmetic mean rank for all three
C8_Witness ==
    /\ op = "finalize"
    /\ err = "none"
    /\ \A m \in DOMAIN metrics :
          metrics[m].cls \in {AdjustedArithmeticMeanRank, AdjustedArithmeticMeanRankIndex}
          => /\ <<m, SIDE_BOTH, RANK_REALISTIC>> \in DOMAIN result
             /\ <<m, SIDE_BOTH, RANK_OPTIMISTIC>> \notin DOMAIN result
             /\ <<m, SIDE_BOTH, RANK_PESSIMISTIC>> \notin DOMAIN result
    /\ \E m \in DOMAIN metrics :
          /\ metrics[m].cls = ArithmeticMeanRank
          /\ \A rt \in Range(RANK_TYPES) : <<m, SIDE_BOTH, rt>> \in DOMAIN result

\* C9: an evaluator constructed with the thresholds ks holds one Hits@k metric for
\* each requested k, and finalize() records a Hits@k value for each requested k for
\* every (side, rank type) with data.
C9_HitsPerK ==
    constructed =>
        \A i \in DOMAIN ks :
            /\ \E m \in DOMAIN metrics : metrics[m].cls = HitsAtK /\ metrics[m].k = ks[i]
            /\ (op = "finalize" /\ err = "none") =>
                  \A side \in Range(SIDES), rt \in Range(RANK_TYPES) :
                      EntriesOf(result, side) # {}
                      => \E m \in DOMAIN metrics :
                            /\ metrics[m].cls = HitsAtK
                            /\ metrics[m].k = ks[i]
                            /\ <<m, side, rt>> \in DOMAIN result

\* C10: for every value finalize() recorded for a metric other than Hits@k, a side and
\* a rank type, get_metric("<canonical metric name>.<side>.<rank type>") returns that
\* value.
C10_GetMetricReturnsRecorded ==
    \A i \in DOMAIN CANONICAL_NAMES, side \in Range(SIDES), rt \in Range(RANK_TYPES) :
        LET cls == CANONICAL_NAMES[i][1]
            key == <<normalize_inst([cls |-> cls]), side, rt>>
        IN  (/\ cls # HitsAtK
             /\ op = "get_metric"
             /\ query = DottedQuery(CANONICAL_NAMES[i][2], side, rt)
             /\ key \in DOMAIN result)
            => (err = "none" /\ ret = Some(result[key]))

\* the report of the last finalize has an entry for the side and the rank type
HasData(side, rt) == \E key \in DOMAIN result : key[2] = side /\ key[3] = rt

\* C11: get_metric with a Hits@k query whose k is one of the configured ks returns the
\* Hits@k value of that k, side and rank type: it does not raise, and for the k of the
\* Hits@k metric the evaluator holds it returns the value finalize() recorded.
C11_HitsQuery ==
    \A q \in Queries :
        (/\ op = "get_metric"
         /\ query = q
         /\ resolve_metric_name(q).ok
         /\ resolve_metric_name(q).name = HITS_AT_K
         /\ \E i \in DOMAIN ks : ks[i].v = Num(resolve_metric_name(q).k[1])
         /\ HasData(resolve_metric_name(q).side, resolve_metric_name(q).rank_type))
        => /\ err = "none"
           /\ ret # None
           /\ \A m \in DOMAIN metrics :
                 (/\ metrics[m].cls = HitsAtK
                  /\ metrics[m].k.v = Num(resolve_metric_name(q).k[1]))
                 => ret = Some(result[<<m, resolve_metric_name(q).side,
                                        resolve_metric_name(q).rank_type>>])

\* C12: on a result of finalize(), to_flat_dict() and to_df() do not raise and
\* enumerate one row per recorded entry.
C12_RowsPerEntry ==
    (op \in {"to_flat_dict", "to_df"})
    => /\ err = "none"
       /\ ret # None
       /\ Len(ret[1]) = Cardinality(DOMAIN result)

----------------------------------------------------------------------------
(* Properties of resolve_metric_name, checked under SpecResolve.           *)

\* C13: for every MetricKey that resolve_metric_name returns,
\* resolve_metric_name(str(key)) returns an equal key.
C13_RoundTrip ==
    [][(op' = "resolve_str") => (err' = "none" /\ ret' = ret)]_vars

\* the abbreviations and synonyms of the metric names with the canonical name each
\* stands for
NameSynonyms ==
    <<<<<<"m", "r">>,
        <<"a", "r", "i", "t", "h", "m", "e", "t", "i", "c", "_", "m", "e", "a", "n", "_", "r", "a", "n", "k">>>>,
      <<<<"m", "e", "a", "n", "_", "r", "a", "n", "k">>,
        <<"a", "r", "i", "t", "h", "m", "e", "t", "i", "c", "_", "m", "e", "a", "n", "_", "r", "a", "n", "k">>>>,
      <<<<"m", "r", "r">>,
        <<"i", "n", "v", "e", "r", "s", "e", "_", "h", "a", "r", "m", "o", "n", "i", "c", "_", "m", "e", "a", "n", "_", "r", "a", "n", "k">>>>,
      <<<<"m", "e", "a", "n", "_", "r", "e", "c", "i", "p", "r", "o", "c", "a", "l", "_", "r", "a", "n", "k">>,
        <<"i", "n", "v", "e", "r", "s", "e", "_", "h", "a", "r", "m", "o", "n", "i", "c", "_", "m", "e", "a", "n", "_", "r", "a", "n", "k">>>>,
      <<<<"g", "m", "r">>,
        <<"g", "e", "o", "m", "e", "t", "r", "i", "c", "_", "m", "e", "a", "n", "_", "r", "a", "n", "k">>>>,
      <<<<"h", "m", "r">>,
        <<"h", "a", "r", "m", "o", "n", "i", "c", "_", "m", "e", "a", "n", "_", "r", "a", "n", "k">>>>,
      <<<<"a", "m", "r">>,
        <<"a", "d", "j", "u", "s", "t", "e", "d", "_", "a", "r", "i", "t", "h", "m", "e", "t", "i", "c", "_", "m", "e", "a", "n", "_", "r", "a", "n", "k">>>>,
      <<<<"a", "a", "m", "r">>,
        <<"a", "d", "j", "u", "s", "t", "e", "d", "_", "a", "r", "i", "t", "h", "m", "e", "t", "i", "c", "_", "m", "e", "a", "n", "_", "r", "a", "n", "k">>>>,
      <<<<"a", "d", "j", "u", "s", "t", "e", "d", "_", "m", "e", "a", "n", "_", "r", "a", "n", "k">>,
        <<"a", "d", "j", "u", "s", "t", "e", "d", "_", "a", "r", "i", "t", "h", "m", "e", "t", "i", "c", "_", "m", "e", "a", "n", "_", "r", "a", "n", "k">>>>,
      <<<<"a", "m", "r", "i">>,
        <<"a", "d", "j", "u", "s", "t", "e", "d", "_", "a", "r", "i", "t", "h", "m", "e", "t", "i", "c", "_", "m", "e", "a", "n", "_", "r", "a", "n", "k", "_", "i", "n", "d", "e", "x">>>>,
      <<<<"a", "a", "m", "r", "i">>,
        <<"a", "d", "j", "u", "s", "t", "e", "d", "_", "a", "r", "i", "t", "h", "m", "e", "t", "i", "c", "_", "m", "e", "a", "n", "_", "r", "a", "n", "k", "_", "i", "n", "d", "e", "x">>>>,
      <<<<"a", "d", "j", "u", "s", "t", "e", "d", "_", "m", "e", "a", "n", "_", "r", "a", "n", "k", "_", "i", "n", "d", "e", "x">>,
        <<"a", "d", "j", "u", "s", "t", "e", "d", "_", "a", "r", "i", "t", "h", "m", "e", "t", "i", "c", "_", "m", "e", "a", "n", "_", "r", "a", "n", "k", "_", "i", "n", "d", "e", "x">>>>>>

\* C14: a metric-name abbreviation or synonym resolves like
\* '<canonical name>.both.realistic', to a key with the canonical name: 'mrr' to
\* inverse_harmonic_mean_rank, 'mean_rank' to arithmetic_mean_rank, and 'amri.avg' to
\* adjusted_arithmetic_mean_rank_index.
C14_SynonymEquivalence ==
    \A i \in DOMAIN NameSynonyms :
        (/\ op = "resolve_metric_name"
         /\ query \in {NameSynonyms[i][1], NameSynonyms[i][1] \o <<".", "a", "v", "g">>})
        => /\ err = "none"
           /\ ret # None
           /\ ret[1].name = NameSynonyms[i][2]
           /\ ret[1] = resolve_metric_name(DottedQuery(NameSynonyms[i][2], SIDE_BOTH, RANK_REALISTIC))

\* the components of a query: the texts between its dots
RECURSIVE Components(_)
Components(q) ==
    IF \A i \in DOMAIN q : q[i] # "." THEN <<q>>
    ELSE <<Slice(q, 1, CHOOSE i \in DOMAIN q : q[i] = "." /\ \A j \in 1..(i - 1) : q[j] # ".")>>
         \o Components(Slice(q, (CHOOSE i \in DOMAIN q : q[i] = "." /\ \A j \in 1..(i - 1) : q[j] # ".") + 1,
                              Len(q) + 1))

\* the names that stand for AMR or AMRI, and the rank types other than realistic with
\* their synonyms
AdjustedNames ==
    {<<"a", "m", "r">>,
     <<"a", "a", "m", "r">>,
     <<"a", "d", "j", "u", "s", "t", "e", "d", "_", "m", "e", "a", "n", "_", "r", "a", "n", "k">>,
     <<"a", "d", "j", "u", "s", "t", "e", "d", "_", "a", "r", "i", "t", "h", "m", "e", "t", "i", "c", "_", "m", "e", "a", "n", "_", "r", "a", "n", "k">>,
     <<"a", "m", "r", "i">>,
     <<"a", "a", "m", "r", "i">>,
     <<"a", "d", "j", "u", "s", "t", "e", "d", "_", "m", "e", "a", "n", "_", "r", "a", "n", "k", "_", "i", "n", "d", "e", "x">>,
     <<"a", "d", "j", "u", "s", "t", "e", "d", "_", "a", "r", "i", "t", "h", "m", "e", "t", "i", "c", "_", "m", "e", "a", "n", "_", "r", "a", "n", "k", "_", "i", "n", "d", "e", "x">>}
NonRealisticTypes ==
    {RANK_OPTIMISTIC, RANK_PESSIMISTIC, <<"b", "e", "s", "t">>, <<"w", "o", "r", "s", "t">>}

\* the query names AMR or AMRI, in any letter case, and gives a rank type other than
\* realistic in the place of the rank type, after the optional side
AdjustedNonRealistic(q) ==
    /\ Len(Components(q)) >= 2
    /\ lower(Components(q)[1]) \in AdjustedNames
    /\ \/ Components(q)[2] \in NonRealisticTypes
       \/ /\ Len(Components(q)) >= 3
          /\ Components(q)[2] \in Range(SIDES)
          /\ Components(q)[3] \in NonRealisticTypes

\* C15: a query whose metric name resolves to AMR or AMRI and whose rank type resolves
\* to optimistic or pessimistic raises an error, and no returned MetricKey has an AMR or
\* AMRI name with a rank type other than realistic.
C15_AdjustedRealisticOnly ==
    /\ (op = "resolve_metric_name" /\ AdjustedNonRealistic(query))
       => (err \in {"ValueError", "AssertionError"} /\ ret = None)
    /\ (op \in {"resolve_metric_name", "resolve_str"} /\ ret # None)
       => (ret[1].name \in {ADJUSTED_ARITHMETIC_MEAN_RANK, ADJUSTED_ARITHMETIC_MEAN_RANK_INDEX}
           => ret[1].rank_type = RANK_REALISTIC)

\* 'amr.optimistic' was rejected
C15_Witness ==
    /\ op = "resolve_metric_name"
    /\ query = <<"a", "m", "r", ".", "o", "p", "t", "i", "m", "i", "s", "t", "i", "c">>
    /\ AdjustedNonRealistic(query)
    /\ err = "ValueError"

\* a component that is, in any letter case, neither a side, nor a rank type or a
\* synonym of one, nor a string of digits follows the name of the query
UnknownComponent(q) ==
    \E i \in 2..Len(Components(q)) :
        /\ lower(Components(q)[i]) \notin Range(SIDES)
        /\ lower(Components(q)[i]) \notin Range(TYPE_ALTERNATIVES)
        /\ ~(/\ Components(q)[i] # <<>>
             /\ \A j \in DOMAIN Components(q)[i] : IsDigit(Components(q)[i][j]))

\* C16: a query with a component after the metric name that is not a valid side, rank
\* type or integer k raises an error; no key is returned in which the component given
\* was replaced by a default.
C16_UnknownComponentRejected ==
    (op = "resolve_metric_name" /\ UnknownComponent(query))
    => (err # "none" /\ ret = None)

\* C17: for every k >= 0 the queries 'hits_at_<k>', 'hits@<k>' and 'h@<k>' resolve to
\* a key named hits_at_k with that k, also when a '.<k>' component follows; the bare
\* 'hits_at_k' resolves with k = 10, and 'hits_at_k.head.best.3' to
\* (hits_at_k, head, optimistic, 3).
C17_HitsForms ==
    op = "resolve_metric_name" =>
        /\ \A p \in Range(HITS_ALTERNATIVES), k \in 0..MaxK \cup {10} :
              lower(Components(query)[1]) = p \o str_int(k)
              => /\ err = "none"
                 /\ ret # None
                 /\ ret[1].name = HITS_AT_K
                 /\ ret[1].k = Some(k)
                 /\ Len(Components(query)) = 1
                    => ret[1] = MetricKey(HITS_AT_K, SIDE_BOTH, RANK_REALISTIC, Some(k))
        /\ query = HITS_AT_K
           => (err = "none" /\ ret = Some(MetricKey(HITS_AT_K, SIDE_BOTH, RANK_REALISTIC, Some(10))))
        /\ query = <<"h", "i", "t", "s", "_", "a", "t", "_", "k", ".", "h", "e", "a", "d", ".", "b", "e", "s", "t", ".", "3">>
           => (err = "none" /\ ret = Some(MetricKey(HITS_AT_K, SIDE_HEAD, RANK_OPTIMISTIC, Some(3))))

\* 'hits@1.3' was resolved: the k of the pattern, 1, is in the key and not the 3
C17_Witness ==
    /\ op = "resolve_metric_name"
    /\ query = <<"h", "i", "t", "s", "@", "1", ".", "3">>
    /\ err = "none"
    /\ ret = Some(MetricKey(HITS_AT_K, SIDE_BOTH, RANK_REALISTIC, Some(1)))

\* the lower-case form of a query with underscores for its spaces
LowerUnderscore(q) == [i \in DOMAIN q |-> IF LowerChar(q[i]) = " " THEN "_" ELSE LowerChar(q[i])]

\* C18: resolve_metric_name is case-insensitive and folds spaces to underscores over the
\* whole query: a query resolves like its lower-case, underscore form.
C18_CaseAndSpaceInsensitive ==
    op = "resolve_metric_name" =>
        \A r \in {resolve_metric_name(LowerUnderscore(query))} :
            /\ r.ok => (err = "none" /\ ret = Some(r))
            /\ ~r.ok => (err = r.exc /\ ret = None)

----------------------------------------------------------------------------
(* Properties of the Hits@k thresholds, checked under SpecKs.              *)

\* C19: constructing a RankBasedEvaluator raises when a requested k is a float
\* outside of (0, 1) or an int that is not strictly positive, and succeeds when every
\* k is a positive int or a float strictly between 0 and 1.
C19_ThresholdsValidated ==
    op = "__init__" =>
        (err # "none"
         <=> \E i \in DOMAIN ks :
                \/ ks[i].float /\ ~(FLt(Num(0), ks[i].v) /\ FLt(ks[i].v, Num(1)))
                \/ ~ks[i].float /\ ~FLt(Num(0), ks[i].v))

\* C20: for a float k in (0, 1), a row is a hit when its rank is at most k times its
\* number_of_options, and the Hits@k recorded is the fraction of such rows.
C20_RelativeThreshold ==
    [][(op' = "finalize" /\ err' = "none")
        => \A key \in DOMAIN result' :
              (metrics[key[1]].cls = HitsAtK /\ metrics[key[1]].k.float)
              => \A rks \in {_get_for_side(ranks[key[3]], key[2]).val},
                    opts \in {_get_for_side(number_of_options, key[2]).val} :
                    result'[key]
                      = Rat(Cardinality({i \in DOMAIN rks :
                                FLe(rks[i], FMul(metrics[key[1]].k.v, opts[i]))}),
                            Len(rks))]_vars

----------------------------------------------------------------------------
(* Further properties of compute_rank_from_scores and of the metrics,      *)
(* checked under SpecRank.                                                 *)

\* x lies in the interval a ValueRange describes
InRange(x, vr) ==
    /\ IF vr.lower_inclusive THEN FGe(x, vr.lower) ELSE FGt(x, vr.lower)
    /\ IF vr.upper_inclusive THEN FLe(x, vr.upper) ELSE FLt(x, vr.upper)

\* the metrics whose ranges the claim names: Hits@k for the default ks, MRR, the
\* arithmetic mean rank, AMR and AMRI
RangedMetrics ==
    {m \in Range(metric_instances(DEFAULT_KS)) :
        m.cls \in {HitsAtK, InverseHarmonicMeanRank, ArithmeticMeanRank,
                   AdjustedArithmeticMeanRank, AdjustedArithmeticMeanRankIndex}}

\* C24: for rank arrays with 1 <= rank_i <= num_candidates_i, the value of Hits@k,
\* MRR, the arithmetic mean rank, AMR and AMRI lies in the ValueRange its class declares.
C24_ValueRanges ==
    (/\ rank_pc = "done"
     /\ \A rt \in Range(RANK_TYPES) : \A i \in DOMAIN true_score :
           /\ FLe(Num(1), to_type_dict(batch_ranks)[rt][i])
           /\ FLe(to_type_dict(batch_ranks)[rt][i], batch_ranks.number_of_options[i]))
    => \A m \in RangedMetrics : \A rt \in supported_rank_types(m.cls) :
          InRange(MetricCall(m, to_type_dict(batch_ranks)[rt], batch_ranks.number_of_options),
                  value_range(m.cls))

\* C26: a call of compute_rank_from_scores with a NaN true score in some row signals an
\* error and does not return ranks for the row.
C26_NaNTrueScoreRejected ==
    (rank_pc = "done" /\ \E i \in DOMAIN true_score : IsNaN(true_score[i]))
    => err # "none"

\* C30: in a row whose true score is a finite number that occurs among the candidates,
\* the pessimistic rank is at most number_of_options.
C30_PessimisticWithinOptions ==
    rank_pc = "done" =>
        \A i \in DOMAIN true_score :
            (IsNum(true_score[i]) /\ true_score[i] \in Range(all_scores[i]))
            => FLe(batch_ranks.pessimistic[i], batch_ranks.number_of_options[i])

\* the Ranks of the batch in which candidate j of row i was filtered out (set to NaN)
FilteredRanks(i, j) ==
    compute_rank_from_scores(true_score, [all_scores EXCEPT ![i][j] = NaN])

\* the candidates of row i that score strictly higher than, and the same as, the true triple
Competitors(i) == {j \in DOMAIN all_scores[i] : FGt(all_scores[i][j], true_score[i])}
Equals(i) == {j \in DOMAIN all_scores[i] : FEq(all_scores[i][j], true_score[i])}

\* the arithmetic mean rank (both, realistic) of a run in which the head and the tail
\* update each received the batch
BothRealisticMean ==
    MetricCall([cls |-> ArithmeticMeanRank],
               _get_for_side([s \in Range(REAL_SIDES) |-> <<batch_ranks.realistic>>],
                             SIDE_BOTH).val,
               _get_for_side([s \in Range(REAL_SIDES) |-> <<batch_ranks.number_of_options>>],
                             SIDE_BOTH).val)

\* C25: filtering out a candidate that scores strictly higher than the true triple lowers
\* the optimistic, realistic and pessimistic rank of the row by exactly 1; a one-row
\* batch whose true score occurs once has the arithmetic mean rank (both, realistic) 2
\* when one higher-scoring competitor is left unfiltered and 1 when none is left.
C25_FilteringLowersRank ==
    rank_pc = "done" =>
        /\ \A i \in DOMAIN true_score : \A j \in Competitors(i) :
              \A rt \in Range(RANK_TYPES) :
                  to_type_dict(FilteredRanks(i, j))[rt][i]
                    = FSub(to_type_dict(batch_ranks)[rt][i], Num(1))
        /\ (Len(true_score) = 1 /\ Cardinality(Equals(1)) = 1 /\ Cardinality(Competitors(1)) = 1)
              => BothRealisticMean = Num(2)
        /\ (Len(true_score) = 1 /\ Cardinality(Equals(1)) = 1 /\ Competitors(1) = {})
              => BothRealisticMean = Num(1)

\* the toy scenario with its highest-scoring competitor filtered: the true score 1,
\* the second-highest competitor 2, and a NaN
C25_Witness ==
    /\ rank_pc = "done"
    /\ true_score = <<Num(1)>>
    /\ all_scores = <<<<Num(1), Num(2), NaN>>>>
    /\ batch_ranks.realistic = <<Num(2)>>
    /\ FilteredRanks(1, 2).realistic = <<Num(1)>>
    /\ BothRealisticMean = Num(2)

----------------------------------------------------------------------------
(* Further properties of resolve_metric_name, checked under SpecResolve.   *)

\* C29: resolve_metric_name returns a key that has a k exactly when its name is
\* hits_at_k, or raises ValueError; no other kind of error is raised.
C29_KeyShapeOrValueError ==
    op = "resolve_metric_name" =>
        \/ err = "none" /\ ret # None /\ (ret[1].k # None <=> ret[1].name = HITS_AT_K)
        \/ err = "ValueError" /\ ret = None

----------------------------------------------------------------------------
(* Further properties of RankBasedEvaluator, checked under Spec.           *)

\* the chunks accumulated for a rank type and a side, and the candidate counts of a side
Bucket(rks, rt, side) ==
    IF rt \in DOMAIN rks /\ side \in DOMAIN rks[rt] THEN rks[rt][side] ELSE <<>>

\* bucket `after` is bucket `before` with one chunk of length B appended
OneChunkAppended(before, after, B) ==
    /\ Len(after) = Len(before) + 1
    /\ SubSeq(after, 1, Len(before)) = before
    /\ Len(after[Len(after)]) = B

\* the update of `side` appended one chunk of the same length to its four buckets and
\* left the buckets of the other side and the metric registry unchanged
AppendedTo(side, other) ==
    /\ \E B \in 0..MaxRows :
          /\ \A rt \in Range(RANK_TYPES) :
                OneChunkAppended(Bucket(ranks, rt, side), Bucket(ranks', rt, side), B)
          /\ OneChunkAppended(get_or_empty(number_of_options, side),
                              get_or_empty(number_of_options', side), B)
    /\ \A rt \in Range(RANK_TYPES) : Bucket(ranks', rt, other) = Bucket(ranks, rt, other)
    /\ get_or_empty(number_of_options', other) = get_or_empty(number_of_options, other)
    /\ metrics' = metrics

\* C27: each call of process_head_scores_ or process_tail_scores_ appends exactly one
\* chunk, of the length of the batch, to each of the three rank-type buckets and to the
\* candidate-count bucket of its side, and leaves the other side's buckets, the chunks
\* appended before and the metric registry unchanged.
C27_AppendOnly ==
    [][/\ op' = "process_head_scores_" => AppendedTo(SIDE_HEAD, SIDE_TAIL)
       /\ op' = "process_tail_scores_" => AppendedTo(SIDE_TAIL, SIDE_HEAD)]_vars

----------------------------------------------------------------------------
(* Properties of the sampled evaluator, checked under SpecSampled.         *)

\* the sides whose negatives __init__ samples: those without given negatives
SampledSide(side) == negatives = None \/ negatives[1][side] = None

\* the filter set of the evaluator's arguments
FilterSet == prepare_filter_triples(evaluation_factory.mapped_triples, additional_filter_triples)

\* the pool of evaluation triple i for a side
PoolOf(i, side) ==
    sampling_pool(FilterSet, evaluation_factory.mapped_triples[i], side,
                  evaluation_factory.num_entities)

\* triple tr with the entity e at the side's position
Corrupted(tr, side, e) == [tr EXCEPT ![side_column(side)] = e]

\* C21: constructing the sampled evaluator with num_negatives greater than the factory's
\* num_entities raises an error at construction, however the negatives are supplied
\* (for no side, for one side, for both sides).
C21_TooManyNegativesRejected ==
    (/\ op = "__init__"
     /\ num_negatives # None
     /\ num_negatives[1] > evaluation_factory.num_entities)
    => err # "none"

\* C22: for every evaluation triple i, side s and entity e sampled for row i of side s,
\* the triple i with e at its s-position is not in the filter set (the evaluation
\* triples together with the additional filter triples), also when the pool was
\* repeated.
C22_SampledNegativesDisjoint ==
    negative_samples # None =>
        \A side \in Range(REAL_SIDES) :
            SampledSide(side) =>
                \A i \in DOMAIN evaluation_factory.mapped_triples :
                    \A e \in Range(negative_samples[1][side][i]) :
                        Corrupted(evaluation_factory.mapped_triples[i], side, e) \notin FilterSet

\* a constructed evaluator one of whose sampled rows draws an entity twice, from a pool
\* smaller than num_negatives that had to be repeated
C22_Witness ==
    /\ op = "__init__"
    /\ err = "none"
    /\ \E side \in Range(REAL_SIDES) :
          /\ SampledSide(side)
          /\ \E i \in DOMAIN evaluation_factory.mapped_triples :
                /\ Cardinality(PoolOf(i, side)) < num_negatives[1]
                /\ Len(negative_samples[1][side][i]) = num_negatives[1]
                /\ Cardinality(Range(negative_samples[1][side][i])) < num_negatives[1]
                /\ Range(negative_samples[1][side][i]) \subseteq PoolOf(i, side)

\* C23: whenever the pool of some evaluation triple has fewer than num_samples
\* entities, sample_negatives does not fail: it repeats pool entries and returns a
\* matrix holding num_samples entity ids in every row.
C23_ShortPoolRepeated ==
    \A side \in Range(REAL_SIDES) :
        (/\ op = "__init__"
         /\ SampledSide(side)
         /\ num_negatives # None
         /\ 0 < num_negatives[1]
         /\ num_negatives[1] <= evaluation_factory.num_entities
         /\ \E i \in DOMAIN evaluation_factory.mapped_triples :
               Cardinality(PoolOf(i, side)) < num_negatives[1])
        => \E r \in {sample_negatives(evaluation_factory.mapped_triples, side,
                                      additional_filter_triples, num_negatives[1],
                                      Some(evaluation_factory.num_entities))} :
              /\ r.exc = "none"
              /\ err # "ZeroDivisionError"
              /\ \A m \in r.val : \A i \in DOMAIN m : Len(m[i]) = num_negatives[1]
              /\ err = "none" => negative_samples[1][side] \in r.val

\* the ranks an update of the sampled evaluator has to accumulate for the batch it
\* received: those of the true score among the true score and the scores at the entity
\* columns of each triple's pool row
GatheredRanks(side) ==
    compute_rank_from_scores(
        true_score',
        [i \in DOMAIN hrt_batch'[1] |->
            <<true_score'[i]>>
            \o [j \in DOMAIN negative_samples[1][side][triple_to_index[1][hrt_batch'[1][i]]] |->
                   scores'[1][i][negative_samples[1][side][triple_to_index[1][hrt_batch'[1][i]]][j] + 1]]])

\* the update of a side accumulated exactly the gathered ranks as one more chunk, and
\* counted no more options than the row of negatives and the true entity
AccumulatedGathered(side) ==
    \E g \in {GatheredRanks(side)} :
        /\ \A rt \in Range(RANK_TYPES) :
              Bucket(ranks', rt, side) = Append(Bucket(ranks, rt, side), to_type_dict(g)[rt])
        /\ get_or_empty(number_of_options', side)
               = Append(get_or_empty(number_of_options, side), g.number_of_options)
        /\ \A i \in DOMAIN g.number_of_options :
              FLe(g.number_of_options[i],
                  Num(Len(negative_samples[1][side][triple_to_index[1][hrt_batch'[1][i]]]) + 1))

\* C28: for every batch of evaluation triples and every side, the update of the sampled
\* evaluator accumulates exactly the ranks compute_rank_from_scores returns for the true
\* score together with the scores at the entity columns of each triple's pool row (so
\* number_of_options <= num_negatives + 1), and no update or finalize changes the
\* triple-to-index table or the negative pool built at construction.
C28_SampledUpdateGathers ==
    [][/\ negative_samples' = negative_samples
       /\ triple_to_index' = triple_to_index
       /\ op' = "process_head_scores_" => AccumulatedGathered(SIDE_HEAD)
       /\ op' = "process_tail_scores_" => AccumulatedGathered(SIDE_TAIL)]_vars

====
